---------------------------- MODULE Spec2Model ----------------------------
(***************************************************************************)
(* A model of LightNBT (src/lnbt.hpp): the tagged-value data model, the    *)
(* binary codec nbt::bin, the text codec nbt::str, the get / get_if        *)
(* accessors, and of the region reader mca (src/lmca.hpp).                 *)
(*                                                                         *)
(* Representation.                                                         *)
(*   char / byte      an integer 0..255 (the value of the unsigned char)   *)
(*   std::string      a sequence of bytes                                  *)
(*   int8_t, short,   the object as a tuple of 1, 2, 4, 8 bytes, most      *)
(*   int, long long   significant byte first (two's complement)            *)
(*   float, double    the IEEE-754 object, 4 or 8 bytes, most significant  *)
(*                    byte first                                           *)
(*   Tag              [k |-> TagType 0..12, v |-> payload]                  *)
(*   List             payload [et |-> element TagType, elems |-> <<Tag>>]   *)
(*   Compound         payload: the std::map as the sequence of             *)
(*                    [name, tag] entries in iteration (key) order         *)
(*   NBT              [name |-> string, tag |-> Tag]                        *)
(*   istream          a byte sequence and a read position (pos = number of *)
(*                    bytes consumed); int_type EOF is -1                  *)
(***************************************************************************)
EXTENDS Integers, Sequences, FiniteSets, TLC

VARIABLES
    pc,        \* position of the calling program
    endian,    \* template argument of bin::read / bin::write
    native,    \* std::endian::native of the build
    nbt,       \* the NBT handed to bin::write, or the wire document of the stream
    bytes,     \* contents of the stream
    decoded,   \* outcome of bin::read / str::read
    rewritten, \* bytes produced by writing `decoded` again
    exceptions,\* exception mask of the stream read (basic_ios::exceptions)
    outExceptions, \* exception mask of the stream written
    writer,    \* the Writer in use (text codec)
    nav,       \* outcome of a chain of accessor calls
    region     \* the region file stream and the Decompressor of a region read

vars ==
    <<pc, endian, native, nbt, bytes, decoded, rewritten, exceptions, outExceptions, writer, nav,
      region>>

----------------------------------------------------------------------------
(* Sequences and characters *)

Reverse(s) == [i \in 1..Len(s) |-> s[Len(s) + 1 - i]]

RECURSIVE Concat(_)
Concat(ss) == IF ss = <<>> THEN <<>> ELSE Head(ss) \o Concat(Tail(ss))

Rep(n, b) == [i \in 1..n |-> b]

\* The character literals of lnbt.hpp (ASCII).
Ord(c) ==
    CASE c = "\t" -> 9  [] c = "\n" -> 10 [] c = " " -> 32 [] c = "\"" -> 34
      [] c = "'" -> 39  [] c = "(" -> 40  [] c = ")" -> 41 [] c = "+" -> 43
      [] c = "," -> 44  [] c = "-" -> 45  [] c = "." -> 46 [] c = "0" -> 48
      [] c = "1" -> 49  [] c = "2" -> 50  [] c = "3" -> 51 [] c = "4" -> 52
      [] c = "5" -> 53  [] c = "6" -> 54  [] c = "7" -> 55 [] c = "8" -> 56
      [] c = "9" -> 57  [] c = ":" -> 58  [] c = ";" -> 59 [] c = "?" -> 63
      [] c = "A" -> 65  [] c = "B" -> 66  [] c = "D" -> 68 [] c = "E" -> 69
      [] c = "F" -> 70  [] c = "I" -> 73  [] c = "L" -> 76 [] c = "S" -> 83
      [] c = "Z" -> 90  [] c = "[" -> 91  [] c = "\\" -> 92 [] c = "]" -> 93
      [] c = "_" -> 95  [] c = "a" -> 97  [] c = "b" -> 98 [] c = "c" -> 99
      [] c = "d" -> 100 [] c = "e" -> 101 [] c = "f" -> 102 [] c = "i" -> 105
      [] c = "l" -> 108 [] c = "n" -> 110
      [] c = "o" -> 111 [] c = "q" -> 113 [] c = "r" -> 114 [] c = "s" -> 115
      [] c = "t" -> 116 [] c = "u" -> 117 [] c = "v" -> 118 [] c = "x" -> 120
      [] c = "y" -> 121 [] c = "z" -> 122
      [] c = "{" -> 123 [] c = "}" -> 125

\* A string literal, written as a tuple of one-character strings.
S(t) == [i \in 1..Len(t) |-> Ord(t[i])]

\* operator< of std::string: lexicographic on unsigned bytes.
RECURSIVE StrLess(_, _)
StrLess(a, b) ==
    IF b = <<>> THEN FALSE
    ELSE IF a = <<>> THEN TRUE
    ELSE IF a[1] # b[1] THEN a[1] < b[1]
    ELSE StrLess(Tail(a), Tail(b))

----------------------------------------------------------------------------
(* enum class TagType *)

TagEnd == 0
TagByte == 1
TagShort == 2
TagInt == 3
TagLong == 4
TagFloat == 5
TagDouble == 6
TagByteArray == 7
TagString == 8
TagList == 9
TagCompound == 10
TagIntArray == 11
TagLongArray == 12

\* A match() that lacks the case label of LongArray: a variant that the
\* dispatch property C5 tells from match().
matchWithoutLongArray(type) == type \in 0..11

\* match(): the TagTypes with a case label; every other value throws
\* runtime_error("unsupported tag ID").
match(type) == type \in 0..12

Tag(k, v) == [k |-> k, v |-> v]
EndTag == Tag(TagEnd, <<>>)
NBT(name, tag) == [name |-> name, tag |-> tag]

\* Tag::getType / List::getType: the index of the active alternative.
getType(tag) == tag.k
ListGetType(list) == list.et

\* sizeof of the scalar alternatives (0 for monostate: nothing is stored).
SizeOf(k) ==
    CASE k = TagByte -> 1 [] k = TagShort -> 2 [] k = TagInt -> 4
      [] k = TagLong -> 8 [] k = TagFloat -> 4 [] k = TagDouble -> 8
      [] OTHER -> 0

IsScalar(k) == k \in TagByte..TagDouble
IsArray(k) == k \in {TagByteArray, TagIntArray, TagLongArray}
\* value_type of the three array alternatives
ArrayElem(k) ==
    CASE k = TagByteArray -> TagByte [] k = TagIntArray -> TagInt
      [] k = TagLongArray -> TagLong

----------------------------------------------------------------------------
(* Integers as objects *)

\* The w-byte two's complement object of the integer n (n reduced mod 2^(8w)).
RECURSIVE IntToBytes(_, _)
IntToBytes(n, w) ==
    IF w = 0 THEN <<>> ELSE Append(IntToBytes(n \div 256, w - 1), n % 256)

RECURSIVE UnsignedOf(_)
UnsignedOf(b) ==
    IF b = <<>> THEN 0 ELSE UnsignedOf(SubSeq(b, 1, Len(b) - 1)) * 256 + b[Len(b)]

\* The value of a two's complement object.
SignedOf(b) ==
    IF b[1] >= 128
    THEN 0 - UnsignedOf([i \in 1..Len(b) |-> 255 - b[i]]) - 1
    ELSE UnsignedOf(b)

\* Conversion of a signed object to a wider type (size_t size = short): sign
\* extension.
SignExtend(b, w) == Rep(w - Len(b), IF b[1] >= 128 THEN 255 ELSE 0) \o b

\* Conversion to a narrower integer type: the low-order bytes.
Truncate(b, w) == SubSeq(b, Len(b) - w + 1, Len(b))

\* sizeof(size_t)
SizeTWidth == 8

\* A size_t no string or vector can have: above max_size(), so that the
\* constructor throws std::length_error.
ExceedsMaxSize(sz) == sz[1] >= 128

\* A size_t as a number, when it is below 2^24 (larger requests are never
\* satisfied by the streams of this model: the read fails first).
SizeTSmall(sz) == \A i \in 1..(SizeTWidth - 3) : sz[i] = 0
SizeTValue(sz) == UnsignedOf(SubSeq(sz, SizeTWidth - 2, SizeTWidth))

----------------------------------------------------------------------------
(* class Compound : std::map<string, Tag> *)

CompoundFind(c, name) ==
    IF \E i \in 1..Len(c) : c[i].name = name
    THEN CHOOSE i \in 1..Len(c) : c[i].name = name
    ELSE 0

\* compound[name] = tag, the statement left commented out in
\* io::read<Compound>: a present key has its value replaced. A variant that
\* the duplicate-key property C4 tells from map::insert.
CompoundInsertOverwrite(c, name, tag) ==
    LET at == CompoundFind(c, name)
        lo == {i \in 1..Len(c) : StrLess(c[i].name, name)}
        n  == Cardinality(lo)
    IN IF at # 0 THEN [c EXCEPT ![at].tag = tag]
       ELSE SubSeq(c, 1, n) \o <<[name |-> name, tag |-> tag]>> \o SubSeq(c, n + 1, Len(c))

\* map::insert(make_pair(name, tag)): nothing is inserted when the key is
\* present; otherwise the entry goes to its place in key order.
\* A compound that keeps the entries in the order of insertion
CompoundInsertAppend(c, name, tag) ==
    IF CompoundFind(c, name) # 0 THEN c ELSE Append(c, [name |-> name, tag |-> tag])

CompoundInsert(c, name, tag) ==
    LET lo == {i \in 1..Len(c) : StrLess(c[i].name, name)}
        n  == Cardinality(lo)
    IN IF CompoundFind(c, name) # 0 THEN c
       ELSE SubSeq(c, 1, n) \o <<[name |-> name, tag |-> tag]>> \o SubSeq(c, n + 1, Len(c))

----------------------------------------------------------------------------
(* namespace nbt::bin *)

Ok(val, pos) == [st |-> "ok", val |-> val, pos |-> pos]
Fail(st) == [st |-> st, val |-> <<>>, pos |-> 0]

\* The object (most significant byte first) whose storage holds the bytes
\* mem, and the storage of an object, on a machine of the given byte order.
Object(nat, mem) == IF nat = "little" THEN Reverse(mem) ELSE mem

\* endianswap<endian>(val): the value itself when endian::native == endian,
\* else (size 1: itself) byteswap of the object.
endianswap(en, nat, val) ==
    IF nat = en THEN val
    ELSE IF Len(val) = 1 THEN val
    ELSE Reverse(val)

\* io::read<TagType>: static_cast<TagType>(in.get()); at end of input get()
\* sets eofbit|failbit, which throws under the mask bin::read has set.
binReadTagType(in, pos) ==
    IF pos >= Len(in) THEN Fail("ios_failure") ELSE Ok(in[pos + 1], pos + 1)

\* io::read<T>, T integral or floating point, sizeof(T) = w.
binReadScalar(en, nat, in, pos, w) ==
    IF pos + w > Len(in) THEN Fail("ios_failure")
    ELSE Ok(endianswap(en, nat, Object(nat, SubSeq(in, pos + 1, pos + w))), pos + w)

\* io::read<string>: size_t size = read<short>(in); string str(size, '\0');
\* in.read(str.data(), size).
binReadString(en, nat, in, pos) ==
    LET r == binReadScalar(en, nat, in, pos, 2)
        size == SignExtend(r.val, SizeTWidth)
        n == SizeTValue(size)
    IN IF r.st # "ok" THEN r
       ELSE IF ExceedsMaxSize(size) THEN Fail("length_error")
       ELSE IF r.pos + n > Len(in) THEN Fail("ios_failure")
       ELSE Ok(SubSeq(in, r.pos + 1, r.pos + n), r.pos + n)

RECURSIVE binReadPayload(_, _, _, _, _), binReadElems(_, _, _, _, _, _, _),
          binReadVector(_, _, _, _, _), binReadList(_, _, _, _),
          binReadCompoundLoop(_, _, _, _, _), binReadTag(_, _, _, _, _)

\* The loop of io::read<is_list T>: for (auto &e : vec) e = read<value_type>(in).
binReadElems(en, nat, in, pos, k, n, acc) ==
    IF n = 0 THEN Ok(acc, pos)
    ELSE LET r == binReadPayload(en, nat, in, pos, k)
         IN IF r.st # "ok" THEN r
            ELSE binReadElems(en, nat, in, r.pos, k, n - 1, Append(acc, r.val))

\* io::read<is_list T>: T vec(read<int>(in)) and the loop. The int converts
\* to size_type by sign extension; a negative count is above max_size().
binReadVector(en, nat, in, pos, k) ==
    LET r == binReadScalar(en, nat, in, pos, 4)
        size == SignExtend(r.val, SizeTWidth)
    IN IF r.st # "ok" THEN r
       ELSE IF ExceedsMaxSize(size) THEN Fail("length_error")
       ELSE IF ~SizeTSmall(size) THEN Fail("bad_alloc")
       ELSE binReadElems(en, nat, in, r.pos, k, SizeTValue(size), <<>>)

\* io::read<List>: match(read<TagType>(in), read<vector<U>>).
binReadList(en, nat, in, pos) ==
    LET t == binReadTagType(in, pos)
    IN IF t.st # "ok" THEN t
       ELSE IF ~match(t.val) THEN Fail("unsupported tag ID")
       ELSE LET r == binReadVector(en, nat, in, t.pos, t.val)
            IN IF r.st # "ok" THEN r
               ELSE Ok([et |-> t.val,
                        elems |-> [i \in 1..Len(r.val) |-> Tag(t.val, r.val[i])]], r.pos)

\* io::read<Compound>: the for loop, one iteration per call.
binReadCompoundLoop(en, nat, in, pos, compound) ==
    LET t == binReadTagType(in, pos)
    IN IF t.st # "ok" THEN t
       ELSE IF t.val = TagEnd THEN Ok(compound, t.pos)
       ELSE LET name == binReadString(en, nat, in, t.pos)
            IN IF name.st # "ok" THEN name
               ELSE LET tag == binReadTag(en, nat, in, name.pos, t.val)
                    IN IF tag.st # "ok" THEN tag
                       ELSE binReadCompoundLoop(en, nat, in, tag.pos,
                                CompoundInsert(compound, name.val, tag.val))

binReadCompound(en, nat, in, pos) == binReadCompoundLoop(en, nat, in, pos, <<>>)

\* read<U>(in) for the U that match() selects for TagType k.
binReadPayload(en, nat, in, pos, k) ==
    CASE k = TagEnd -> Ok(<<>>, pos)
      [] IsScalar(k) -> binReadScalar(en, nat, in, pos, SizeOf(k))
      [] IsArray(k) -> binReadVector(en, nat, in, pos, ArrayElem(k))
      [] k = TagString -> binReadString(en, nat, in, pos)
      [] k = TagList -> binReadList(en, nat, in, pos)
      [] k = TagCompound -> binReadCompound(en, nat, in, pos)

\* io::read<Tag>(in, type): match(type, T(read<U>(in))).
binReadTag(en, nat, in, pos, type) ==
    IF ~match(type) THEN Fail("unsupported tag ID")
    ELSE LET r == binReadPayload(en, nat, in, pos, type)
         IN IF r.st # "ok" THEN r ELSE Ok(Tag(type, r.val), r.pos)

\* io::read(istream&) -> NBT
ioRead(en, nat, in) ==
    LET type == binReadTagType(in, 0)
    IN IF type.st # "ok" THEN type
       ELSE LET name == binReadString(en, nat, in, type.pos)
            IN IF name.st # "ok" THEN name
               ELSE LET tag == binReadTag(en, nat, in, name.pos, type.val)
                    IN IF tag.st # "ok" THEN tag
                       ELSE Ok(NBT(name.val, tag.val), tag.pos)

\* bin::read: in.exceptions(eofbit | failbit | badbit); io<endian>::read(in).
binRead(en, nat, in) == ioRead(en, nat, in)

\* io::write<TagType>: out.put(static_cast<int8_t>(val))
binWriteTagType(val) == <<val>>

\* A write<T> that leaves out endianswap and stores val as it is in memory:
\* a variant that the decode-then-encode property C3 tells from write<T>.
binWriteScalarNative(en, nat, val) == Object(nat, val)

\* io::write<T>, T integral or floating point: the storage of
\* endianswap<endian>(val).
binWriteScalar(en, nat, val) == Object(nat, endianswap(en, nat, val))

\* io::write<string>: write<short>(out, val.size()), then the size() bytes.
binWriteString(en, nat, val) ==
    binWriteScalar(en, nat, Truncate(IntToBytes(Len(val), SizeTWidth), 2)) \o val

RECURSIVE binWritePayload(_, _, _, _), binWriteElems(_, _, _, _),
          binWriteCompound(_, _, _)

\* The loop of io::write<is_list T>.
binWriteElems(en, nat, k, vec) ==
    IF vec = <<>> THEN <<>>
    ELSE binWritePayload(en, nat, k, Head(vec)) \o binWriteElems(en, nat, k, Tail(vec))

\* io::write<is_list T>: write<int>(out, val.size()), then the elements.
binWriteVector(en, nat, k, vec) ==
    binWriteScalar(en, nat, Truncate(IntToBytes(Len(vec), SizeTWidth), 4))
        \o binWriteElems(en, nat, k, vec)

\* io::write<List>
binWriteList(en, nat, val) ==
    binWriteTagType(ListGetType(val))
        \o binWriteVector(en, nat, ListGetType(val),
                          [i \in 1..Len(val.elems) |-> val.elems[i].v])

\* io::write<Compound>: the entries in iteration order, then TagType::End.
binWriteCompound(en, nat, val) ==
    IF val = <<>> THEN binWriteTagType(TagEnd)
    ELSE binWriteTagType(getType(Head(val).tag))
            \o binWriteString(en, nat, Head(val).name)
            \o binWritePayload(en, nat, getType(Head(val).tag), Head(val).tag.v)
            \o binWriteCompound(en, nat, Tail(val))

\* write(out, val.get<U>()) for the U that match() selects for TagType k.
binWritePayload(en, nat, k, v) ==
    CASE k = TagEnd -> <<>>
      [] IsScalar(k) -> binWriteScalar(en, nat, v)
      [] IsArray(k) -> binWriteVector(en, nat, ArrayElem(k), v)
      [] k = TagString -> binWriteString(en, nat, v)
      [] k = TagList -> binWriteList(en, nat, v)
      [] k = TagCompound -> binWriteCompound(en, nat, v)

\* io::write<Tag>
binWriteTag(en, nat, val) == binWritePayload(en, nat, getType(val), val.v)

\* io::write(ostream&, const NBT&) / bin::write
binWrite(en, nat, val) ==
    binWriteTagType(getType(val.tag))
        \o binWriteString(en, nat, val.name)
        \o binWriteTag(en, nat, val.tag)

----------------------------------------------------------------------------
(* The documents and streams the model runs on *)

MaxListLen == 2
MaxEntries == 2

SeqsUpTo(set, n) == UNION {[1..m -> set] : m \in 0..n}

Names == {<<>>, S(<<"a">>), S(<<"b">>)}

\* IEEE-754 objects of the values h/2, |h| < 2^20, h # 0 (0.0 is all zero).
RECURSIVE Log2(_)
Log2(a) == IF a <= 1 THEN 0 ELSE 1 + Log2(a \div 2)
RECURSIVE Pow2(_)
Pow2(n) == IF n = 0 THEN 1 ELSE 2 * Pow2(n - 1)
Abs(h) == IF h < 0 THEN 0 - h ELSE h

F32M(neg, a) ==
    IF a = 0 THEN <<IF neg THEN 128 ELSE 0, 0, 0, 0>>
    ELSE LET e2 == Log2(a)
             biased == e2 - 1 + 127
             mant == (a - Pow2(e2)) * Pow2(23 - e2)
         IN <<(IF neg THEN 128 ELSE 0) + biased \div 2,
              (biased % 2) * 128 + mant \div 65536,
              (mant \div 256) % 256,
              mant % 256>>

F64M(neg, a) ==
    IF a = 0 THEN <<IF neg THEN 128 ELSE 0, 0, 0, 0, 0, 0, 0, 0>>
    ELSE LET e2 == Log2(a)
             biased == e2 - 1 + 1023
             mant == (a - Pow2(e2)) * Pow2(20 - e2)
         IN <<(IF neg THEN 128 ELSE 0) + biased \div 16,
              (biased % 16) * 16 + mant \div 65536,
              (mant \div 256) % 256,
              mant % 256, 0, 0, 0, 0>>

F32(h) == F32M(h < 0, Abs(h))
F64(h) == F64M(h < 0, Abs(h))

\* The floats the text codec is modelled on: the values a/2 with a below
\* FloatDomain, where the shortest decimal form is the fixed one.
FloatDomain == 2000

\* The inverse: [neg, a] of an object in the domain, else [neg, a |-> -1].
F32Halves(b) ==
    LET neg == b[1] >= 128
        biased == (b[1] % 128) * 2 + b[2] \div 128
        mant == (b[2] % 128) * 65536 + b[3] * 256 + b[4]
        full == Pow2(23) + mant
        down == 149 - biased
    IN IF biased = 0 /\ mant = 0 THEN [neg |-> neg, a |-> 0]
       ELSE IF down \in 1..23 /\ full % Pow2(down) = 0 /\ full \div Pow2(down) < FloatDomain
            THEN [neg |-> neg, a |-> full \div Pow2(down)]
       ELSE [neg |-> neg, a |-> -1]

F64Halves(b) ==
    LET neg == b[1] >= 128
        biased == (b[1] % 128) * 16 + b[2] \div 16
        mant == (b[2] % 16) * 65536 + b[3] * 256 + b[4]
        full == Pow2(20) + mant
        down == 1042 - biased
    IN IF \E i \in 5..8 : b[i] # 0 THEN [neg |-> neg, a |-> -1]
       ELSE IF biased = 0 /\ mant = 0 THEN [neg |-> neg, a |-> 0]
       ELSE IF down \in 1..20 /\ full % Pow2(down) = 0 /\ full \div Pow2(down) < FloatDomain
            THEN [neg |-> neg, a |-> full \div Pow2(down)]
       ELSE [neg |-> neg, a |-> -1]

IntVals == {5, -2}

\* Payloads of the kinds that hold no Tag.
LeafPayloads(k) ==
    CASE k = TagEnd -> {<<>>}
      [] k = TagByte -> {IntToBytes(n, 1) : n \in IntVals}
      [] k = TagShort -> {IntToBytes(300, 2)}
      [] k = TagInt -> {IntToBytes(n, 4) : n \in IntVals}
      [] k = TagLong -> {IntToBytes(-7, 8)}
      [] k = TagFloat -> {F32(5)}
      [] k = TagDouble -> {F64(10), F64(-1)}
      [] k = TagByteArray -> SeqsUpTo({IntToBytes(5, 1)}, MaxListLen)
      [] k = TagString -> {<<>>, S(<<"a">>), S(<<"a", "\"", "\\">>), S(<<"'", "\n">>)}
      [] k = TagIntArray -> SeqsUpTo({IntToBytes(-2, 4)}, MaxListLen)
      [] k = TagLongArray -> SeqsUpTo({IntToBytes(5, 8)}, MaxListLen)
      [] OTHER -> {}

LeafKinds == (0..12) \ {TagList, TagCompound}
LeafTags(k) == {Tag(k, v) : v \in LeafPayloads(k)}
Leaves == UNION {LeafTags(k) : k \in LeafKinds}

\* A Compound built the way the program builds one: by insertions.
RECURSIVE MkCompound(_)
MkCompound(es) ==
    IF es = <<>> THEN <<>>
    ELSE CompoundInsert(MkCompound(SubSeq(es, 1, Len(es) - 1)),
                        es[Len(es)][1], es[Len(es)][2])

MkList(et, elems) == Tag(TagList, [et |-> et, elems |-> elems])

EntryTags == {EndTag, Tag(TagByte, IntToBytes(5, 1)), Tag(TagInt, IntToBytes(-2, 4)),
              Tag(TagDouble, F64(5)), Tag(TagString, S(<<"a">>)),
              Tag(TagByteArray, <<IntToBytes(5, 1)>>), MkList(TagEnd, <<>>),
              MkList(TagInt, <<>>), MkList(TagInt, <<Tag(TagInt, IntToBytes(5, 4))>>)}

Lists1 == UNION {{MkList(k, e) : e \in SeqsUpTo(LeafTags(k), MaxListLen)} : k \in 0..12}
Compounds1 == {Tag(TagCompound, MkCompound(es)) :
                  es \in SeqsUpTo(Names \X EntryTags, MaxEntries)}
SmallCompounds == {Tag(TagCompound, MkCompound(es)) :
                      es \in SeqsUpTo({S(<<"a">>)} \X {EndTag, Tag(TagByte, IntToBytes(5, 1))}, 1)}
SmallLists == {MkList(TagEnd, <<>>), MkList(TagByte, <<>>),
               MkList(TagByte, <<Tag(TagByte, IntToBytes(5, 1))>>),
               MkList(TagString, <<Tag(TagString, S(<<"a">>))>>)}
Nested ==
    {MkList(TagCompound, e) : e \in SeqsUpTo(SmallCompounds, MaxListLen)}
    \cup {MkList(TagList, e) : e \in SeqsUpTo(SmallLists, MaxListLen)}
    \cup {Tag(TagCompound, MkCompound(<<<<n, t>>>>)) :
             n \in Names, t \in SmallCompounds \cup SmallLists}

Trees == Leaves \cup Lists1 \cup Compounds1 \cup Nested

\* 2^15: the least string length whose 16-bit length field has the sign bit set.
LongLen == 32768
LongDocs == {NBT(Rep(LongLen, Ord("a")), EndTag),
             NBT(<<>>, Tag(TagString, Rep(LongLen + 1, Ord("a"))))}

Docs == {NBT(n, t) : n \in Names, t \in Trees} \cup LongDocs

\* Streams not produced by bin::write, written out along the wire grammar:
\* a root Compound whose entries come in any order, names repeated or not.
WireScalar(en, v) == IF en = "little" THEN Reverse(v) ELSE v
WireString(en, str) == WireScalar(en, IntToBytes(Len(str), 2)) \o str
WirePayload(en, t) ==
    CASE IsScalar(t.k) -> WireScalar(en, t.v)
      [] t.k = TagString -> WireString(en, t.v)
      [] t.k = TagEnd -> <<>>
RECURSIVE WireEntries(_, _)
WireEntries(en, es) ==
    IF es = <<>> THEN <<TagEnd>>
    ELSE <<es[1][2].k>> \o WireString(en, es[1][1]) \o WirePayload(en, es[1][2])
            \o WireEntries(en, Tail(es))

WireNames == {S(<<"a">>), S(<<"a", "b">>)}
WireTags == {Tag(TagByte, IntToBytes(5, 1)), Tag(TagByte, IntToBytes(-1, 1)),
             Tag(TagShort, IntToBytes(300, 2)), Tag(TagString, S(<<"b">>))}
\* The wire documents: NBT values whose Compound payload lists the entries
\* in stream order (it is not a std::map).
WireDocs ==
    {NBT(n, Tag(TagCompound, [i \in 1..Len(es) |-> [name |-> es[i][1], tag |-> es[i][2]]])) :
        n \in {<<>>, S(<<"a">>)}, es \in SeqsUpTo(WireNames \X WireTags, MaxEntries + 1)}
Wire(en, d) ==
    <<TagCompound>> \o WireString(en, d.name)
        \o WireEntries(en, [i \in 1..Len(d.tag.v) |-> <<d.tag.v[i].name, d.tag.v[i].tag>>])

\* A tag id byte at each of the three tag positions, followed by a payload
\* that is well-formed when the id is one of the 13.
ProbeIds == (0..14) \cup {127, 128, 255}
ProbePayload(en, id) ==
    CASE id \in 1..6 -> Rep(SizeOf(id), 1)
      [] id \in {TagByteArray, TagIntArray, TagLongArray} -> <<0, 0, 0, 0>>
      [] id = TagString -> WireString(en, S(<<"a">>))
      [] id = TagList -> <<TagEnd, 0, 0, 0, 0>>
      [] id = TagCompound -> <<TagEnd>>
      [] OTHER -> <<>>
ProbeRoot(en, id) == <<id, 0, 0>> \o ProbePayload(en, id)
ProbeEntry(en, id) ==
    <<TagCompound, 0, 0, id>> \o WireString(en, S(<<"a">>)) \o ProbePayload(en, id) \o <<TagEnd>>
ProbeList(en, id) ==
    <<TagList, 0, 0, id>> \o WireScalar(en, <<0, 0, 0, 1>>) \o ProbePayload(en, id)
Probes(en) == UNION {{ProbeRoot(en, id), ProbeEntry(en, id), ProbeList(en, id)} : id \in ProbeIds}

\* The minimal document, and the same followed by one more byte.
MinimalDoc == <<TagCompound, 0, 0, 0>>
OtherStreams(en) == Probes(en) \cup {MinimalDoc, MinimalDoc \o <<TagByte>>}

----------------------------------------------------------------------------
(* namespace nbt::str: characters and numbers *)

EOF == -1

\* in.peek() at position pos; char c = in.peek() stores EOF as char(-1).
Peek(in, pos) == IF pos >= Len(in) THEN EOF ELSE in[pos + 1]
ToChar(i) == IF i = EOF THEN 255 ELSE i
\* in.get() / in.ignore(): the position after it
Advance(in, pos) == IF pos >= Len(in) THEN pos ELSE pos + 1

isspace(c) == c \in 9..13 \/ c = 32
isdigit(c) == c >= Ord("0") /\ c <= Ord("9")
\* A tolower that changes nothing: a variant that the token property C7
\* tells from tolower.
tolowerNone(c) == c
tolower(c) == IF c >= Ord("A") /\ c <= Ord("Z") THEN c + 32 ELSE c

isAllowedInUnquotedString(c) ==
    \/ c >= Ord("0") /\ c <= Ord("9")
    \/ c >= Ord("A") /\ c <= Ord("Z")
    \/ c >= Ord("a") /\ c <= Ord("z")
    \/ c = Ord("_") \/ c = Ord("-") \/ c = Ord(".") \/ c = Ord("+")

RECURSIVE skipWhitespace(_, _)
skipWhitespace(in, pos) ==
    IF isspace(Peek(in, pos)) THEN skipWhitespace(in, pos + 1) ELSE pos

\* A statement that throws ends the function that runs it: the failure r is
\* the result; otherwise the rest of the function, K, runs on the result r.
Then(r, K(_)) == IF r.st # "ok" THEN r ELSE K(r)

\* expect(in, c): in.get() must be c, else runtime_error("unexpected character").
expect(in, pos, c) ==
    IF Peek(in, pos) # c THEN Fail("unexpected character") ELSE Ok(<<>>, pos + 1)

\* The index after the digits of s that start at index i.
RECURSIVE DigitsEnd(_, _)
DigitsEnd(s, i) == IF i <= Len(s) /\ isdigit(s[i]) THEN DigitsEnd(s, i + 1) ELSE i

RECURSIVE DigitsVal(_)
DigitsVal(d) == IF d = <<>> THEN 0
                ELSE DigitsVal(SubSeq(d, 1, Len(d) - 1)) * 10 + (d[Len(d)] - Ord("0"))

\* The range of a signed integer of w bytes; every number of up to 9 digits
\* is in the range of int and of long long.
InRange(v, w) == w >= 4 \/ (v >= 0 - Pow2(8 * w - 1) /\ v < Pow2(8 * w - 1))

\* readNum<T>, T integral of w bytes: from_chars must succeed and consume
\* all of s: an optional '-' and decimal digits, the value in the range of T.
readNumInt(s, w) ==
    LET neg == s # <<>> /\ s[1] = Ord("-")
        from == IF neg THEN 2 ELSE 1
        to == DigitsEnd(s, from)
        mag == DigitsVal(SubSeq(s, from, to - 1))
        val == IF neg THEN 0 - mag ELSE mag
    IN IF to = from \/ to <= Len(s) \/ ~InRange(val, w) THEN Fail("from_chars() error")
       ELSE Ok(IntToBytes(val, w), 0)

AllZero(d) == \A i \in 1..Len(d) : d[i] = Ord("0")

\* The value of the float literal s whose integer digits are int and whose
\* fraction digits are frac, the literal ending before index to.
FloatValue(s, w, neg, from, int, frac, to) ==
    LET half == frac # <<>> /\ frac[1] = Ord("5") /\ AllZero(Tail(frac))
        a == 2 * DigitsVal(int) + (IF half THEN 1 ELSE 0)
    IN IF int = <<>> /\ frac = <<>>
       THEN IF from <= Len(s) /\ tolower(s[from]) \in {Ord("i"), Ord("n")}
            THEN Fail("unmodelled") ELSE Fail("from_chars() error")
       ELSE IF to <= Len(s)
       THEN IF tolower(s[to]) = Ord("e") THEN Fail("unmodelled")
            ELSE Fail("from_chars() error")
       ELSE IF ~(AllZero(frac) \/ half) \/ a >= FloatDomain THEN Fail("unmodelled")
       ELSE Ok(IF w = 4 THEN F32M(neg, a) ELSE F64M(neg, a), 0)

\* The fraction of the float literal s, whose integer digits end before dot.
FloatFraction(s, w, neg, from, dot) ==
    IF dot <= Len(s) /\ s[dot] = Ord(".")
    THEN FloatValue(s, w, neg, from, SubSeq(s, from, dot - 1),
                    SubSeq(s, dot + 1, DigitsEnd(s, dot + 1) - 1), DigitsEnd(s, dot + 1))
    ELSE FloatValue(s, w, neg, from, SubSeq(s, from, dot - 1), <<>>, dot)

\* readNum<T>, T floating point of w bytes: an optional '-', digits with an
\* optional '.' and fraction. Exponents, inf and nan, and fractions other
\* than .0 and .5 are outside the floats of this model ("unmodelled").
readNumFloat(s, w) ==
    LET neg == s # <<>> /\ s[1] = Ord("-")
        from == IF neg THEN 2 ELSE 1
    IN FloatFraction(s, w, neg, from, DigitsEnd(s, from))

\* readNum<U> for the scalar of TagType k
readNum(k, s) ==
    IF k \in {TagFloat, TagDouble} THEN readNumFloat(s, SizeOf(k))
    ELSE readNumInt(s, SizeOf(k))

\* to_chars of an integer: its decimal digits
RECURSIVE NatChars(_)
NatChars(n) ==
    IF n < 10 THEN <<Ord("0") + n>> ELSE Append(NatChars(n \div 10), Ord("0") + (n % 10))
IntChars(b) ==
    LET v == SignedOf(b) IN IF v < 0 THEN <<Ord("-")>> \o NatChars(0 - v) ELSE NatChars(v)

\* to_chars(buf, buf + buffer_size, val, fmt) with fmt = chars_format{}: the
\* shortest decimal form that reads back as val.
FloatChars(b) ==
    LET h == IF Len(b) = 4 THEN F32Halves(b) ELSE F64Halves(b)
    IN IF h.a < 0 THEN S(<<"?">>)
       ELSE (IF h.neg THEN <<Ord("-")>> ELSE <<>>) \o NatChars(h.a \div 2)
                \o (IF h.a % 2 = 1 THEN S(<<".", "5">>) ELSE <<>>)

----------------------------------------------------------------------------
(* struct Writer *)

stdWriter ==
    [indent |-> S(<<" ", " ", " ", " ">>), end_tag_throw |-> FALSE,
     end_tag |-> S(<<"(", "E", "n", "d", ")">>), escape |-> TRUE,
     line_feed |-> TRUE, space |-> TRUE,
     byte_tag_suffix |-> S(<<"b">>), short_tag_suffix |-> S(<<"s">>),
     int_tag_suffix |-> <<>>, long_tag_suffix |-> S(<<"L">>),
     float_tag_suffix |-> S(<<"f">>), double_tag_suffix |-> S(<<"d">>)]
noLineFeedWriter == [stdWriter EXCEPT !.line_feed = FALSE]
compactWriter == [stdWriter EXCEPT !.line_feed = FALSE, !.space = FALSE]
Writers == {stdWriter, noLineFeedWriter, compactWriter}

writeSpace(w) == IF w.space THEN <<Ord(" ")>> ELSE <<>>
writeLineFeed(w, depth) ==
    IF w.line_feed THEN <<Ord("\n")>> \o Concat([i \in 1..depth |-> w.indent]) ELSE <<>>
writeCommaWithSpace(w) == <<Ord(",")>> \o writeSpace(w)
writeCommaWithLineFeed(w, depth) ==
    <<Ord(",")>> \o (IF w.line_feed THEN writeLineFeed(w, depth) ELSE writeSpace(w))

\* write(out, monostate): the end_tag text (end_tag_throw is WriterThrows).
strWriteEnd(w) == w.end_tag

\* write(out, val) of the six scalars: to_chars and the suffix of the kind.
Suffix(w, k) ==
    CASE k = TagByte -> w.byte_tag_suffix [] k = TagShort -> w.short_tag_suffix
      [] k = TagInt -> w.int_tag_suffix [] k = TagLong -> w.long_tag_suffix
      [] k = TagFloat -> w.float_tag_suffix [] k = TagDouble -> w.double_tag_suffix
strWriteNum(w, k, v) ==
    (IF k \in {TagFloat, TagDouble} THEN FloatChars(v) ELSE IntChars(v)) \o Suffix(w, k)

Contains(s, c) == \E i \in 1..Len(s) : s[i] = c

\* The escape sequence written for c inside quotes `mark`, escape = true.
Escaped(c, mark) ==
    CASE c = Ord("'") -> (IF mark = Ord("'") THEN <<Ord("\\")>> ELSE <<>>) \o <<c>>
      [] c = Ord("\"") -> (IF mark = Ord("\"") THEN <<Ord("\\")>> ELSE <<>>) \o <<c>>
      [] c = Ord("\\") -> S(<<"\\", "\\">>)
      [] c = 7 -> S(<<"\\", "a">>)
      [] c = 8 -> S(<<"\\", "b">>)
      [] c = 12 -> S(<<"\\", "f">>)
      [] c = 10 -> S(<<"\\", "n">>)
      [] c = 13 -> S(<<"\\", "r">>)
      [] c = 9 -> S(<<"\\", "t">>)
      [] c = 11 -> S(<<"\\", "v">>)
      [] OTHER -> <<c>>
\* escape = false
EscapedLess(c) ==
    IF c = Ord("\"") \/ c = Ord("\\") THEN <<Ord("\\"), c>> ELSE <<c>>

\* write(out, string_view)
strWriteString(w, str) ==
    LET mark == IF Contains(str, Ord("\"")) /\ ~Contains(str, Ord("'"))
                THEN Ord("'") ELSE Ord("\"")
    IN <<mark>>
          \o Concat([i \in 1..Len(str) |->
                       IF w.escape THEN Escaped(str[i], mark) ELSE EscapedLess(str[i])])
          \o <<mark>>

writeName(w, name) ==
    IF \E i \in 1..Len(name) : ~isAllowedInUnquotedString(name[i])
    THEN strWriteString(w, name)
    ELSE name

ArrayLetter(k) ==
    CASE k = TagByteArray -> Ord("B") [] k = TagIntArray -> Ord("I")
      [] k = TagLongArray -> Ord("L")

\* Writer::writeArray: each element through write(out, *i, depth + 1), the
\* overload of its type, suffix included.
RECURSIVE writeArrayElems(_, _, _)
writeArrayElems(w, k, vec) ==
    IF Len(vec) = 1 THEN strWriteNum(w, ArrayElem(k), vec[1])
    ELSE strWriteNum(w, ArrayElem(k), vec[1]) \o writeCommaWithSpace(w)
            \o writeArrayElems(w, k, Tail(vec))
writeArray(w, k, vec) ==
    <<Ord("["), ArrayLetter(k), Ord(";")>> \o writeSpace(w)
        \o (IF vec = <<>> THEN <<>> ELSE writeArrayElems(w, k, vec))
        \o <<Ord("]")>>

needWrap(k) == k \in {TagCompound, TagList, TagString} \/ IsArray(k)

RECURSIVE strWritePayload(_, _, _, _), strWriteEntries(_, _, _), writeListElems(_, _, _, _)

\* write(out, const Compound&, depth)
strWriteEntries(w, c, depth) ==
    writeName(w, c[1].name) \o <<Ord(":")>> \o writeSpace(w)
        \o strWritePayload(w, c[1].tag.k, c[1].tag.v, depth + 1)
        \o (IF Len(c) = 1 THEN <<>>
            ELSE writeCommaWithLineFeed(w, depth + 1) \o strWriteEntries(w, Tail(c), depth))
strWriteCompound(w, c, depth) ==
    <<Ord("{")>>
        \o (IF c = <<>> THEN <<>>
            ELSE writeLineFeed(w, depth + 1) \o strWriteEntries(w, c, depth)
                    \o writeLineFeed(w, depth))
        \o <<Ord("}")>>

\* Writer::writeList<T>
writeListElems(w, k, vec, depth) ==
    strWritePayload(w, k, vec[1], depth + 1)
        \o (IF Len(vec) = 1 THEN <<>>
            ELSE (IF needWrap(k) THEN writeCommaWithLineFeed(w, depth + 1)
                  ELSE writeCommaWithSpace(w))
                    \o writeListElems(w, k, Tail(vec), depth))
writeList(w, k, vec, depth) ==
    <<Ord("[")>>
        \o (IF vec = <<>> THEN <<>>
            ELSE (IF needWrap(k) THEN writeLineFeed(w, depth + 1) ELSE <<>>)
                    \o writeListElems(w, k, vec, depth)
                    \o (IF needWrap(k) THEN writeLineFeed(w, depth) ELSE <<>>))
        \o <<Ord("]")>>

\* write(out, const List&, depth): match(list.getType(), writeList)
strWriteList(w, list, depth) ==
    writeList(w, ListGetType(list), [i \in 1..Len(list.elems) |-> list.elems[i].v], depth)

\* write(out, tag.get<U>(), depth) for the U of TagType k
strWritePayload(w, k, v, depth) ==
    CASE k = TagEnd -> strWriteEnd(w)
      [] IsScalar(k) -> strWriteNum(w, k, v)
      [] IsArray(k) -> writeArray(w, k, v)
      [] k = TagString -> strWriteString(w, v)
      [] k = TagList -> strWriteList(w, v, depth)
      [] k = TagCompound -> strWriteCompound(w, v, depth)

\* Writer::write(out, const Tag&, depth = 0)
strWrite(w, tag) == strWritePayload(w, getType(tag), tag.v, 0)

\* write(out, monostate) throws runtime_error("Reach end tag") under
\* end_tag_throw: when the tree holds a Tag of kind End.
RECURSIVE HoldsEnd(_)
HoldsEnd(tag) ==
    CASE tag.k = TagEnd -> TRUE
      [] tag.k = TagList -> \E i \in 1..Len(tag.v.elems) : HoldsEnd(tag.v.elems[i])
      [] tag.k = TagCompound -> \E i \in 1..Len(tag.v) : HoldsEnd(tag.v[i].tag)
      [] OTHER -> FALSE
WriterThrows(w, tag) == w.end_tag_throw /\ HoldsEnd(tag)

----------------------------------------------------------------------------
(* namespace nbt::str::detail: the parser *)

\* The character an escape sequence stands for, or -1 when the character
\* cannot be escaped.
Unescape(c) ==
    CASE c = Ord("'") -> c [] c = Ord("\"") -> c [] c = Ord("?") -> c
      [] c = Ord("\\") -> c
      [] c = Ord("a") -> 7 [] c = Ord("b") -> 8 [] c = Ord("f") -> 12
      [] c = Ord("n") -> 10 [] c = Ord("r") -> 13 [] c = Ord("t") -> 9
      [] c = Ord("v") -> 11
      [] OTHER -> -1

\* The for (;;) of readQuotedString, one iteration per call: char c = in.get().
\* At end of input c is char(EOF), which is neither '\\' nor the mark: it is
\* appended, and so on every later iteration, the stream staying at its end;
\* the loop is left only when push_back cannot grow the string ("unbounded").
RECURSIVE readQuotedLoop(_, _, _, _, _)
readQuotedLoop(in, pos, mark, str, escaped) ==
    LET c == ToChar(Peek(in, pos))
        next == Advance(in, pos)
    IN IF escaped
       THEN IF Unescape(c) = -1 THEN Fail("the character cannot be escaped")
            ELSE readQuotedLoop(in, next, mark, Append(str, Unescape(c)), FALSE)
       ELSE IF c = Ord("\\") THEN readQuotedLoop(in, next, mark, str, TRUE)
       ELSE IF c = mark THEN Ok(str, next)
       ELSE IF pos >= Len(in) THEN Fail("unbounded")
       ELSE readQuotedLoop(in, next, mark, Append(str, c), FALSE)

\* readQuotedString(in, mark): in.ignore() skips the mark.
readQuotedString(in, pos, mark) == readQuotedLoop(in, Advance(in, pos), mark, <<>>, FALSE)

RECURSIVE readUnquotedLoop(_, _, _)
readUnquotedLoop(in, pos, str) ==
    LET c == ToChar(Peek(in, pos))
    IN IF isAllowedInUnquotedString(c) THEN readUnquotedLoop(in, pos + 1, Append(str, c))
       ELSE Ok(str, pos)
readUnquotedString(in, pos) == readUnquotedLoop(in, pos, <<>>)

\* detail::read<string>
strReadString(in, pos) ==
    LET c == ToChar(Peek(in, pos))
    IN IF c = Ord("\"") \/ c = Ord("'") THEN readQuotedString(in, pos, c)
       ELSE readUnquotedString(in, pos)

TrueLit == S(<<"t", "r", "u", "e">>)
FalseLit == S(<<"f", "a", "l", "s", "e">>)

\* readNumWithSuffix<T, suffix>(s): s.back() of an empty s is undefined.
readNumWithSuffix(k, suffix, s) ==
    IF s = <<>> THEN Fail("UB")
    ELSE IF tolower(s[Len(s)]) # suffix THEN Fail("unexpected type")
    ELSE readNum(k, SubSeq(s, 1, Len(s) - 1))

\* detail::read<T>(string_view) without the suffixes: every element is read
\* as a bare number.
strReadNumBare(k, s) == readNum(k, s)

\* detail::read<T>(string_view), T the element of an array literal
strReadNum(k, s) ==
    CASE k = TagByte ->
            IF s = TrueLit THEN Ok(IntToBytes(1, 1), 0)
            ELSE IF s = FalseLit THEN Ok(IntToBytes(0, 1), 0)
            ELSE readNumWithSuffix(k, Ord("b"), s)
      [] k = TagInt -> readNum(k, s)
      [] k = TagLong -> readNumWithSuffix(k, Ord("l"), s)

\* The cases of switch (tolower(s.back())) in detail::read<Tag>: the kind
\* read for a suffix letter, TagEnd standing for the default case.
SuffixKind(last) ==
    CASE last = Ord("b") -> TagByte [] last = Ord("s") -> TagShort
      [] last = Ord("l") -> TagLong [] last = Ord("f") -> TagFloat
      [] last = Ord("d") -> TagDouble [] OTHER -> TagEnd

\* The default branch of detail::read<Tag> on the token s: s.back() of an
\* empty s is undefined.
readBareToken(s, hasPoint) ==
    LET k == SuffixKind(tolower(s[Len(s)]))
    IN IF s = <<>> THEN Fail("UB")
       ELSE IF k # TagEnd
       THEN Then(readNum(k, SubSeq(s, 1, Len(s) - 1)), LAMBDA r : Ok(Tag(k, r.val), 0))
       ELSE IF s = TrueLit THEN Ok(Tag(TagByte, IntToBytes(1, 1)), 0)
       ELSE IF s = FalseLit THEN Ok(Tag(TagByte, IntToBytes(0, 1)), 0)
       ELSE IF hasPoint
       THEN Then(readNum(TagDouble, s), LAMBDA r : Ok(Tag(TagDouble, r.val), 0))
       ELSE Then(readNum(TagInt, s), LAMBDA r : Ok(Tag(TagInt, r.val), 0))

HasPoint(s) == \E i \in 1..Len(s) : s[i] = Ord(".")

\* vector{tag.get<U>()}: class template argument deduction. For a U that is
\* itself a vector (the three arrays) the copy deduction candidate is chosen:
\* the result is a copy of the array, a vector of its elements, and not a
\* vector holding one array.
FirstVector(tag) ==
    IF IsArray(getType(tag))
    THEN [et |-> ArrayElem(getType(tag)),
          elems |-> [i \in 1..Len(tag.v) |-> Tag(ArrayElem(getType(tag)), tag.v[i])]]
    ELSE [et |-> getType(tag), elems |-> <<tag>>]

\* The array kind of the letter after '['.
ArrayKind(c) ==
    CASE c = Ord("B") -> TagByteArray [] c = Ord("I") -> TagIntArray
      [] c = Ord("L") -> TagLongArray

RECURSIVE strReadTag(_, _), strReadCompoundLoop(_, _, _), strReadCompoundNext(_, _, _),
          readArrayLoop(_, _, _, _), readArrayNext(_, _, _, _),
          readList(_, _, _, _), readListOrArray(_, _)

\* detail::read<Compound>: the for (;;) up to compound.insert, one entry per call.
strReadCompoundLoop(in, pos, compound) ==
    Then(strReadString(in, pos), LAMBDA name :
    Then(expect(in, skipWhitespace(in, name.pos), Ord(":")), LAMBDA colon :
    Then(strReadTag(in, skipWhitespace(in, colon.pos)), LAMBDA tag :
    strReadCompoundNext(in, skipWhitespace(in, tag.pos),
                        CompoundInsert(compound, name.val, tag.val)))))

\* detail::read<Compound>: the for (;;) after compound.insert.
strReadCompoundNext(in, pos, compound) ==
    IF Peek(in, pos) = Ord("}") THEN Ok(compound, Advance(in, pos))
    ELSE Then(expect(in, pos, Ord(",")), LAMBDA comma :
         strReadCompoundLoop(in, skipWhitespace(in, comma.pos), compound))

\* detail::read<Compound>: in.ignore() skips '{'.
strReadCompound(in, pos) ==
    LET start == skipWhitespace(in, Advance(in, pos))
    IN IF Peek(in, start) # Ord("}") THEN strReadCompoundLoop(in, start, <<>>)
       ELSE Ok(<<>>, Advance(in, start))

\* readArray<T>: the for (;;) up to vec.push_back, one element per call.
readArrayLoop(in, pos, k, vec) ==
    Then(readUnquotedString(in, pos), LAMBDA tok :
    Then(strReadNum(k, tok.val), LAMBDA num :
    readArrayNext(in, skipWhitespace(in, tok.pos), k, Append(vec, num.val))))

\* readArray<T>: the for (;;) after vec.push_back.
readArrayNext(in, pos, k, vec) ==
    IF Peek(in, pos) = Ord("]") THEN Ok(vec, Advance(in, pos))
    ELSE Then(expect(in, pos, Ord(",")), LAMBDA comma :
         readArrayLoop(in, skipWhitespace(in, comma.pos), k, vec))

\* readArray<T>, T the element type of the array kind k
readArray(in, pos, k) ==
    LET start == skipWhitespace(in, pos)
    IN IF Peek(in, start) # Ord("]") THEN readArrayLoop(in, start, ArrayElem(k), <<>>)
       ELSE Ok(<<>>, Advance(in, start))

\* readList<T>(in, vec): vec.push_back(tag.get<T>()) throws
\* bad_variant_access when the Tag read does not hold a T.
readList(in, pos, k, vec) ==
    LET start == skipWhitespace(in, pos)
    IN IF Peek(in, start) = Ord("]") THEN Ok(vec, Advance(in, start))
       ELSE Then(expect(in, start, Ord(",")), LAMBDA comma :
            Then(strReadTag(in, skipWhitespace(in, comma.pos)), LAMBDA tag :
            IF getType(tag.val) # k THEN Fail("bad_variant_access")
            ELSE readList(in, tag.pos, k, Append(vec, tag.val))))

\* readListOrArray: in.ignore() skips '['.
readListOrArray(in, pos) ==
    LET open == Advance(in, pos)
        c == ToChar(Peek(in, open))
        start == skipWhitespace(in, open)
    IN IF c \in {Ord("B"), Ord("I"), Ord("L")}
       THEN Then(expect(in, open + 1, Ord(";")), LAMBDA semi :
            Then(readArray(in, semi.pos, ArrayKind(c)), LAMBDA arr :
            Ok(Tag(ArrayKind(c), arr.val), arr.pos)))
       ELSE IF Peek(in, start) = Ord("]")
       THEN Ok(MkList(TagEnd, <<>>), Advance(in, start))
       ELSE Then(strReadTag(in, start), LAMBDA tag :
            Then(readList(in, tag.pos, FirstVector(tag.val).et, FirstVector(tag.val).elems),
                 LAMBDA rest : Ok(MkList(FirstVector(tag.val).et, rest.val), rest.pos)))

\* detail::read<Tag>
strReadTag(in, pos) ==
    LET c == ToChar(Peek(in, pos))
    IN CASE c = Ord("\"") \/ c = Ord("'") ->
                Then(readQuotedString(in, pos, c), LAMBDA str :
                Ok(Tag(TagString, str.val), str.pos))
         [] c = Ord("{") ->
                Then(strReadCompound(in, pos), LAMBDA cpd :
                Ok(Tag(TagCompound, cpd.val), cpd.pos))
         [] c = Ord("[") -> readListOrArray(in, pos)
         [] OTHER ->
                Then(readUnquotedString(in, pos), LAMBDA tok :
                Then(readBareToken(tok.val, HasPoint(tok.val)), LAMBDA num :
                Ok(num.val, tok.pos)))

\* str::read<Tag> / str::read(istream&)
strRead(in) == strReadTag(in, skipWhitespace(in, 0))

----------------------------------------------------------------------------
(* The program: a caller of the binary codec *)

NoResult == Fail("none")
NoNBT == NBT(<<>>, EndTag)
IosBits == {"eofbit", "failbit", "badbit"}
Endians == {"big", "little"}

InitBin ==
    /\ endian \in Endians
    /\ native \in Endians
    /\ \/ pc = "start" /\ nbt \in Docs /\ bytes = <<>>
       \/ pc = "stream" /\ nbt \in WireDocs /\ bytes = Wire(endian, nbt)
       \/ pc = "stream" /\ nbt = NoNBT /\ bytes \in OtherStreams(endian)
    /\ decoded = NoResult
    /\ rewritten = <<>>
    /\ exceptions = {} /\ outExceptions = {}
    /\ writer = "none"
    /\ nav = "none"
    /\ region = "none"

\* bin::write<endian>(out, nbt) on an empty stream:
\* out.exceptions(eofbit | failbit | badbit); io<endian>::write(out, val).
BinWrite ==
    /\ pc = "start"
    /\ bytes' = binWrite(endian, native, nbt)
    /\ outExceptions' = IosBits
    /\ pc' = "written"
    /\ UNCHANGED <<endian, native, nbt, decoded, rewritten, exceptions, writer, nav, region>>

\* bin::read<endian>(in) on the stream
BinRead ==
    /\ pc \in {"written", "stream"}
    /\ exceptions' = IosBits
    /\ decoded' = binRead(endian, native, bytes)
    /\ pc' = IF pc = "written" THEN "read" ELSE "decoded"
    /\ UNCHANGED <<endian, native, nbt, bytes, rewritten, writer, nav, region, outExceptions>>

\* bin::write<endian>(out2, decoded) of the document just read
BinRewrite ==
    /\ pc = "decoded"
    /\ decoded.st = "ok"
    /\ rewritten' = binWrite(endian, native, decoded.val)
    /\ outExceptions' = IosBits
    /\ pc' = "rewritten"
    /\ UNCHANGED <<endian, native, nbt, bytes, decoded, exceptions, writer, nav, region>>

\* The lengths a stream is cut to: proper prefixes that end within MaxCut
\* bytes of either end of the stream.
MaxCut == 3
Cuts(b) == {n \in 0..(Len(b) - 1) : n < MaxCut \/ n >= Len(b) - MaxCut}

\* bin::read<endian>(in) on a stream that ends early: the bytes written,
\* cut to a proper prefix
BinReadTruncated ==
    /\ pc = "written"
    /\ \E n \in Cuts(bytes) :
          /\ bytes' = SubSeq(bytes, 1, n)
          /\ decoded' = binRead(endian, native, SubSeq(bytes, 1, n))
    /\ exceptions' = IosBits
    /\ pc' = "truncated"
    /\ UNCHANGED <<endian, native, nbt, rewritten, writer, nav, region, outExceptions>>

NextBin == BinWrite \/ BinRead \/ BinRewrite \/ BinReadTruncated

SpecBin == InitBin /\ [][NextBin]_vars

----------------------------------------------------------------------------
(* The program: a caller of the text codec *)

WriterNames == {"stdWriter", "noLineFeedWriter", "compactWriter"}
WriterOf(n) ==
    CASE n = "stdWriter" -> stdWriter
      [] n = "noLineFeedWriter" -> noLineFeedWriter
      [] n = "compactWriter" -> compactWriter

\* Join the texts ts with the separator sep.
RECURSIVE Join(_, _)
Join(ts, sep) ==
    IF ts = <<>> THEN <<>>
    ELSE IF Len(ts) = 1 THEN ts[1]
    ELSE ts[1] \o sep \o Join(Tail(ts), sep)

\* The text of a wire document: a compound literal that lists the entries in
\* stream order, duplicates included, in the grammar of detail::read<Compound>.
TextCompound(d) ==
    <<Ord("{")>>
        \o Join([i \in 1..Len(d.tag.v) |->
                    d.tag.v[i].name \o <<Ord(":")>> \o strWrite(compactWriter, d.tag.v[i].tag)],
                <<Ord(",")>>)
        \o <<Ord("}")>>
TextDocs == {d \in WireDocs : d.name = <<>>}

\* Bare tokens: a body and a suffix. form says what the body is: a decimal
\* integer ("int"), a decimal with a fraction ("dec") or neither ("bad");
\* halves is twice its value.
TokenBodies ==
    {[text |-> S(<<"5">>), form |-> "int", halves |-> 10],
     [text |-> S(<<"-", "2">>), form |-> "int", halves |-> -4],
     [text |-> S(<<"5", ".", "0">>), form |-> "dec", halves |-> 10],
     [text |-> S(<<"1", ".", "5">>), form |-> "dec", halves |-> 3],
     [text |-> S(<<"5", "x">>), form |-> "bad", halves |-> 0],
     [text |-> S(<<"-">>), form |-> "bad", halves |-> 0]}
TokenSuffixes ==
    {<<>>, S(<<"b">>), S(<<"B">>), S(<<"s">>), S(<<"S">>), S(<<"l">>), S(<<"L">>),
     S(<<"f">>), S(<<"F">>), S(<<"d">>), S(<<"D">>)}
TokenText(body, suffix) == body.text \o suffix
Tokens == {TokenText(b, x) : b \in TokenBodies, x \in TokenSuffixes} \cup {TrueLit, FalseLit}

\* List literals: up to MaxListLen elements, each of a known kind.
ListElements ==
    {[text |-> S(<<"1">>), kind |-> TagInt],
     [text |-> S(<<"2", "b">>), kind |-> TagByte],
     [text |-> S(<<"\"", "a", "\"">>), kind |-> TagString],
     [text |-> S(<<"[", "B", ";", "1", "b", "]">>), kind |-> TagByteArray],
     [text |-> S(<<"[", "I", ";", "1", "]">>), kind |-> TagIntArray],
     [text |-> S(<<"[", "1", "]">>), kind |-> TagList],
     [text |-> S(<<"{", "}">>), kind |-> TagCompound]}
ListLiterals == SeqsUpTo(ListElements, MaxListLen) \ {<<>>}
ListText(es) ==
    <<Ord("[")>> \o Join([i \in 1..Len(es) |-> es[i].text], S(<<",", " ">>)) \o <<Ord("]")>>

\* Inputs with one structural violation each.
MissingColon == {S(<<"{", "a", " ", "1", "}">>), S(<<"{", "a", "}">>), S(<<"{", "\"", "a", "\"", "1", "}">>)}
MissingCloser ==
    {S(<<"[", "1">>), S(<<"[", "1", ",">>), S(<<"[">>), S(<<"{", "a", ":", "1">>),
     S(<<"{", "a", ":">>), S(<<"{">>), S(<<"{", "a", ":", "1", ",">>),
     S(<<"[", "B", ";", "1", "b">>), S(<<"[", "B", ";">>), S(<<"[", "I", ";">>),
     S(<<"[", "I", ";", "1", ",">>), S(<<"{", "a", ":", "[", "1", "}">>)}
Unterminated ==
    {S(<<"\"", "a", "b", "c">>), S(<<"'", "a">>), S(<<"\"">>), S(<<"\"", "a", "\\", "\"">>),
     S(<<"{", "\"", "a", ":", "1", "}">>), S(<<"[", "\"", "a", "'", "]">>)}
IllegalEscape ==
    {S(<<"\"", "a", "\\", "q", "b", "\"">>), S(<<"'", "\\", "0", "'">>),
     S(<<"\"", "\\", "x", "\"">>), S(<<"\"", "a", "\\">>)}
PartialNumber ==
    {S(<<"5", "x">>), S(<<"5", ".", "0", "b">>), S(<<"1", "-", "2">>), S(<<"5", "b", "b">>),
     S(<<"[", "I", ";", "1", "x", "]">>), S(<<"{", "a", ":", "1", "_", "}">>)}
MixedList == {ListText(es) : es \in {l \in ListLiterals : \E i \in 1..Len(l) : l[i].kind # l[1].kind}}
Malformed ==
    MissingColon \cup MissingCloser \cup Unterminated \cup IllegalEscape
        \cup PartialNumber \cup MixedList

\* Typed array literals: a letter and up to MaxArrayLen elements, each an
\* integer body with a suffix, or true.
MaxArrayLen == 2
ArraySuffixes == {<<>>, S(<<"b">>), S(<<"B">>), S(<<"l">>), S(<<"L">>)}
ArrayElements ==
    {[text |-> TokenText(b, x), value |-> b.halves \div 2, suffix |-> x] :
        b \in {t \in TokenBodies : t.form = "int"}, x \in ArraySuffixes}
        \cup {[text |-> TrueLit, value |-> 1, suffix |-> TrueLit]}
ArrayLiterals ==
    [letter : {"B", "I", "L"}, elems : SeqsUpTo(ArrayElements, MaxArrayLen) \ {<<>>}]
ArrayText(a) ==
    <<Ord("["), Ord(a.letter), Ord(";"), Ord(" ")>>
        \o Join([i \in 1..Len(a.elems) |-> a.elems[i].text], S(<<",", " ">>))
        \o <<Ord("]")>>
ArrayCases == {[text |-> ArrayText(a), lit |-> a] : a \in ArrayLiterals}

\* The compound of the format's description
ExampleText ==
    S(<<"{", "f", "o", "o", ":", " ", "1", "b", ",", " ", "b", "a", "r", ":", " ",
        "[", "1", ",", " ", "2", ",", " ", "3", "]", "}">>)

\* Inputs in which an unquoted name or value has no character at all
EmptyTokens ==
    {S(<<"{", ":", " ", "1", "}">>), S(<<"{", "a", ":", " ", "}">>),
     S(<<"[", "1", ",", " ", "]">>), S(<<"[", "B", ";", " ", ",", "]">>),
     S(<<"[", "I", ";", " ", ",", "]">>), S(<<"{", "a", ":", "1", ",", ":", "2", "}">>),
     <<>>, S(<<" ">>), S(<<",">>)}

Texts ==
    Tokens \cup {ListText(es) : es \in ListLiterals} \cup Malformed
        \cup {c.text : c \in ArrayCases} \cup {ExampleText} \cup EmptyTokens

\* s.back() of an empty token is undefined behaviour. The byte before the
\* characters of an empty std::string is not a suffix letter in the standard
\* libraries' layouts, which ends in the from_chars() error; a library built
\* with assertions aborts instead.
UBOutcomes == {Fail("from_chars() error"), Fail("abort")}

InitStr ==
    /\ endian = "big"
    /\ native = "big"
    /\ \/ pc = "tree" /\ nbt \in {NBT(<<>>, t) : t \in Trees} /\ writer \in WriterNames
          /\ bytes = <<>>
       \/ pc = "text" /\ nbt \in TextDocs /\ writer = "none" /\ bytes = TextCompound(nbt)
       \/ pc = "text" /\ nbt = NoNBT /\ writer = "none" /\ bytes \in Texts
    /\ decoded = NoResult
    /\ rewritten = <<>>
    /\ exceptions = {} /\ outExceptions = {}
    /\ nav = "none"
    /\ region = "none"

\* writer.write(out, tag) on an empty stream
StrWrite ==
    /\ pc = "tree"
    /\ ~WriterThrows(WriterOf(writer), nbt.tag)
    /\ bytes' = strWrite(WriterOf(writer), nbt.tag)
    /\ pc' = "printed"
    /\ UNCHANGED <<endian, native, nbt, decoded, rewritten, exceptions, writer, nav, region, outExceptions>>

\* str::read(in) on the stream, whose exception mask is left as it is
StrRead ==
    /\ pc \in {"printed", "text"}
    /\ LET r == strRead(bytes)
       IN decoded' \in (IF r.st = "UB" THEN UBOutcomes ELSE {r})
    /\ pc' = IF pc = "printed" THEN "reparsed" ELSE "parsed"
    /\ UNCHANGED <<endian, native, nbt, bytes, rewritten, exceptions, writer, nav, region, outExceptions>>

\* writer.write(out2, tag) of the tag just parsed, on an empty stream
StrRewrite ==
    /\ pc = "parsed"
    /\ decoded.st = "ok"
    /\ \E w \in WriterNames :
          /\ ~WriterThrows(WriterOf(w), decoded.val)
          /\ writer' = w
          /\ rewritten' = strWrite(WriterOf(w), decoded.val)
    /\ pc' = "reprinted"
    /\ UNCHANGED <<endian, native, nbt, bytes, decoded, exceptions, nav, region, outExceptions>>

NextStr == StrWrite \/ StrRead \/ StrRewrite

SpecStr == InitStr /\ [][NextStr]_vars

----------------------------------------------------------------------------
(* Safe navigation: the get_if accessors of Tag, Compound and List *)

\* A pointer: null, or the address of an object (the object stands for it).
Null == [null |-> TRUE, obj |-> <<>>]
Ptr(o) == [null |-> FALSE, obj |-> o]

\* The result of an accessor: the pointer returned, or "UB" when the call
\* had undefined behaviour.
Returned(ptr) == [st |-> "ok", ptr |-> ptr]
Undefined == [st |-> "UB", ptr |-> Null]

\* std::get_if<T>(pv), T the alternative of TagType k: defined for a null pv.
stdGetIf(pv, k) ==
    IF ~pv.null /\ getType(pv.obj) = k THEN Ptr(pv.obj.v) ELSE Null

\* Tag::get_if<T>() on the Tag *this: a member call through a null pointer
\* is undefined.
TagGetIf(this, k) ==
    IF this.null THEN Undefined ELSE Returned(stdGetIf(this, k))

\* Compound::get_if(name): the comparison this == nullptr is made inside a
\* member function, where a null this is already undefined behaviour.
CompoundGetIf(this, name) ==
    IF this.null THEN Undefined
    ELSE IF CompoundFind(this.obj, name) = 0 THEN Returned(Null)
    ELSE Returned(Ptr(this.obj[CompoundFind(this.obj, name)].tag))

\* Tag::get_if(name): get_if<Compound>()->get_if(name)
TagGetIfName(this, name) ==
    IF this.null THEN Undefined ELSE CompoundGetIf(stdGetIf(this, TagCompound), name)

\* The call ->get_if<T>() on the pointer an accessor returned
ThenGetIf(r, k) == IF r.st # "ok" THEN r ELSE TagGetIf(r.ptr, k)

\* Tag::get_if<T>(name): get_if(name)->get_if<T>()
TagGetIfTypedName(this, k, name) == ThenGetIf(TagGetIfName(this, name), k)

\* Compound::get_if<T>(name): get_if(name)->get_if<T>()
CompoundGetIfTypedName(this, k, name) == ThenGetIf(CompoundGetIf(this, name), k)

\* Tag::get_if<T>(i), T the array of TagType k
TagGetIfIndex(this, k, i) ==
    IF this.null THEN Undefined
    ELSE IF stdGetIf(this, k).null \/ i >= Len(stdGetIf(this, k).obj) THEN Returned(Null)
    ELSE Returned(Ptr(stdGetIf(this, k).obj[i + 1]))

\* List::get_if<T>(i), T the alternative of TagType k
ListGetIf(this, k, i) ==
    IF this.null THEN Undefined
    ELSE IF ListGetType(this.obj) # k \/ i >= Len(this.obj.elems) THEN Returned(Null)
    ELSE Returned(Ptr(this.obj.elems[i + 1].v))

\* The static type of a pointer to the alternative of TagType k
PointeeType(k) ==
    IF k = TagCompound THEN "Compound" ELSE IF k = TagList THEN "List" ELSE "T"

\* The documents navigated, the names and kinds asked for, and the length
\* of a chain of calls.
NavInner ==
    Tag(TagCompound,
        MkCompound(<< <<S(<<"b">>), Tag(TagInt, IntToBytes(5, 4))>>,
                      <<S(<<"c">>), MkList(TagCompound,
                            <<Tag(TagCompound,
                                  MkCompound(<< <<S(<<"a">>), Tag(TagByte, IntToBytes(5, 1))>> >>))>>)>> >>))
NavDocs ==
    {Tag(TagCompound,
         MkCompound(<< <<S(<<"a">>), NavInner>>,
                       <<S(<<"e">>), Tag(TagIntArray, <<IntToBytes(-2, 4)>>)>> >>)),
     NavInner,
     Tag(TagInt, IntToBytes(5, 4)),
     MkList(TagInt, <<Tag(TagInt, IntToBytes(5, 4))>>)}
NavNames == {S(<<"a">>), S(<<"b">>), S(<<"c">>), S(<<"z">>)}
NavKinds == {TagInt, TagCompound, TagList, TagIntArray}
NavIndexes == 0..1
MaxChain == 3

\* The arguments of a call: the alternative asked for, the name, the index
\* (those a call does not take are left at TagEnd, "" and 0).
Args(k, name, i) == [k |-> k, name |-> name, i |-> i]
NoArgs == Args(TagEnd, <<>>, 0)

InitNav ==
    /\ pc = "nav"
    /\ nbt \in {NBT(<<>>, t) : t \in NavDocs}
    /\ nav = [type |-> "Tag", ptr |-> Ptr(nbt.tag), st |-> "ok", steps |-> 0,
              this |-> Null, call |-> "none", args |-> NoArgs]
    /\ endian = "big" /\ native = "big"
    /\ bytes = <<>> /\ decoded = NoResult /\ rewritten = <<>> /\ exceptions = {} /\ outExceptions = {}
    /\ writer = "none" /\ region = "none"

\* One call of a chain: the pointer in hand is the receiver. Undefined
\* behaviour shows as the two outcomes builds produce: the null check is
\* taken on the null receiver and the result is absent, or the check is
\* removed as always false and the null receiver is dereferenced.
Step(call, args, r, type) ==
    /\ nav.st = "ok"
    /\ nav.steps < MaxChain
    /\ nav' \in (IF r.st = "UB"
                 THEN {[type |-> type, ptr |-> Null, st |-> "ok", steps |-> nav.steps + 1,
                        this |-> nav.ptr, call |-> call, args |-> args],
                       [type |-> type, ptr |-> Null, st |-> "crash", steps |-> nav.steps + 1,
                        this |-> nav.ptr, call |-> call, args |-> args]}
                 ELSE {[type |-> type, ptr |-> r.ptr, st |-> r.st, steps |-> nav.steps + 1,
                        this |-> nav.ptr, call |-> call, args |-> args]})
    /\ UNCHANGED <<pc, endian, native, nbt, bytes, decoded, rewritten, exceptions, writer, region, outExceptions>>

NavTagGetIf ==
    /\ pc = "nav" /\ nav.type = "Tag"
    /\ \E k \in NavKinds : Step("Tag::get_if<T>()", Args(k, <<>>, 0), TagGetIf(nav.ptr, k), PointeeType(k))

NavTagGetIfName ==
    /\ pc = "nav" /\ nav.type = "Tag"
    /\ \E name \in NavNames : Step("Tag::get_if(name)", Args(TagEnd, name, 0), TagGetIfName(nav.ptr, name), "Tag")

NavTagGetIfTypedName ==
    /\ pc = "nav" /\ nav.type = "Tag"
    /\ \E k \in NavKinds, name \in NavNames :
          Step("Tag::get_if<T>(name)", Args(k, name, 0),
               TagGetIfTypedName(nav.ptr, k, name), PointeeType(k))

NavTagGetIfIndex ==
    /\ pc = "nav" /\ nav.type = "Tag"
    /\ \E i \in NavIndexes :
          Step("Tag::get_if<T>(i)", Args(TagIntArray, <<>>, i),
               TagGetIfIndex(nav.ptr, TagIntArray, i), "T")

NavCompoundGetIfName ==
    /\ pc = "nav" /\ nav.type = "Compound"
    /\ \E name \in NavNames :
          Step("Compound::get_if(name)", Args(TagEnd, name, 0),
               CompoundGetIf(nav.ptr, name), "Tag")

NavCompoundGetIfTypedName ==
    /\ pc = "nav" /\ nav.type = "Compound"
    /\ \E k \in NavKinds, name \in NavNames :
          Step("Compound::get_if<T>(name)", Args(k, name, 0),
               CompoundGetIfTypedName(nav.ptr, k, name), PointeeType(k))

NavListGetIf ==
    /\ pc = "nav" /\ nav.type = "List"
    /\ \E k \in NavKinds, i \in NavIndexes :
          Step("List::get_if<T>(i)", Args(k, <<>>, i), ListGetIf(nav.ptr, k, i),
               PointeeType(k))

----------------------------------------------------------------------------
(* Strict navigation: the get accessors of Tag, Compound and List *)

\* An accessor that leaves by an exception
Throws(e) == [st |-> e, ptr |-> Null]

\* std::get<T>(v), T the alternative of TagType k
stdGet(v, k) ==
    IF getType(v) = k THEN Returned(Ptr(v.v)) ELSE Throws("bad_variant_access")

\* Tag::get<T>()
TagGet(this, k) == stdGet(this.obj, k)

\* Compound::get(name): map::at
CompoundGet(this, name) ==
    IF CompoundFind(this.obj, name) = 0 THEN Throws("out_of_range")
    ELSE Returned(Ptr(this.obj[CompoundFind(this.obj, name)].tag))

\* The call .get(name) or .get<T>() on the reference an accessor returned
ThenCompoundGet(r, name) == IF r.st # "ok" THEN r ELSE CompoundGet(r.ptr, name)
ThenGet(r, k) == IF r.st # "ok" THEN r ELSE TagGet(r.ptr, k)

\* vector::at(i) on the vector an accessor returned
ThenAt(r, i) ==
    IF r.st # "ok" THEN r
    ELSE IF i >= Len(r.ptr.obj) THEN Throws("out_of_range")
    ELSE Returned(Ptr(r.ptr.obj[i + 1]))

\* Tag::get(name): get<Compound>().at(name)
TagGetName(this, name) == ThenCompoundGet(TagGet(this, TagCompound), name)

\* Tag::get<T>(name): get(name).get<T>()
TagGetTypedName(this, k, name) == ThenGet(TagGetName(this, name), k)

\* Compound::get<T>(name): get(name).get<T>()
CompoundGetTypedName(this, k, name) == ThenGet(CompoundGet(this, name), k)

\* Tag::get<T>(i), T the array of TagType k: get<T>().at(i)
TagGetIndex(this, k, i) == ThenAt(TagGet(this, k), i)

\* List::get<T>(): std::get<vector<T>>(*this)
ListGet(this, k) ==
    IF ListGetType(this.obj) = k THEN Returned(Ptr(this.obj.elems))
    ELSE Throws("bad_variant_access")

\* List::get_if<T>(): std::get_if<vector<T>>(this)
ListGetIfVector(this, k) ==
    IF this.null THEN Undefined
    ELSE IF ListGetType(this.obj) = k THEN Returned(Ptr(this.obj.elems))
    ELSE Returned(Null)

\* List::get<T>(i): std::get<vector<T>>(*this).at(i)
ListGetIndex(this, k, i) ==
    IF ListGetType(this.obj) # k THEN Throws("bad_variant_access")
    ELSE IF i >= Len(this.obj.elems) THEN Throws("out_of_range")
    ELSE Returned(Ptr(this.obj.elems[i + 1].v))

\* A strict accessor is called on an object: the receiver in hand is not null.
NavTagGet ==
    /\ pc = "nav" /\ nav.type = "Tag" /\ ~nav.ptr.null
    /\ \E k \in NavKinds :
          Step("Tag::get<T>()", Args(k, <<>>, 0), TagGet(nav.ptr, k), PointeeType(k))

NavTagGetName ==
    /\ pc = "nav" /\ nav.type = "Tag" /\ ~nav.ptr.null
    /\ \E name \in NavNames :
          Step("Tag::get(name)", Args(TagEnd, name, 0), TagGetName(nav.ptr, name), "Tag")

NavTagGetTypedName ==
    /\ pc = "nav" /\ nav.type = "Tag" /\ ~nav.ptr.null
    /\ \E k \in NavKinds, name \in NavNames :
          Step("Tag::get<T>(name)", Args(k, name, 0),
               TagGetTypedName(nav.ptr, k, name), PointeeType(k))

NavTagGetIndex ==
    /\ pc = "nav" /\ nav.type = "Tag" /\ ~nav.ptr.null
    /\ \E i \in NavIndexes :
          Step("Tag::get<T>(i)", Args(TagIntArray, <<>>, i),
               TagGetIndex(nav.ptr, TagIntArray, i), "T")

NavCompoundGetName ==
    /\ pc = "nav" /\ nav.type = "Compound" /\ ~nav.ptr.null
    /\ \E name \in NavNames :
          Step("Compound::get(name)", Args(TagEnd, name, 0),
               CompoundGet(nav.ptr, name), "Tag")

NavCompoundGetTypedName ==
    /\ pc = "nav" /\ nav.type = "Compound" /\ ~nav.ptr.null
    /\ \E k \in NavKinds, name \in NavNames :
          Step("Compound::get<T>(name)", Args(k, name, 0),
               CompoundGetTypedName(nav.ptr, k, name), PointeeType(k))

NavListGet ==
    /\ pc = "nav" /\ nav.type = "List" /\ ~nav.ptr.null
    /\ \E k \in NavKinds :
          Step("List::get<T>()", Args(k, <<>>, 0), ListGet(nav.ptr, k), "T")

NavListGetIndex ==
    /\ pc = "nav" /\ nav.type = "List" /\ ~nav.ptr.null
    /\ \E k \in NavKinds, i \in NavIndexes :
          Step("List::get<T>(i)", Args(k, <<>>, i), ListGetIndex(nav.ptr, k, i),
               PointeeType(k))

NextNav ==
    \/ NavTagGetIf \/ NavTagGetIfName \/ NavTagGetIfTypedName \/ NavTagGetIfIndex
    \/ NavCompoundGetIfName \/ NavCompoundGetIfTypedName \/ NavListGetIf
    \/ NavTagGet \/ NavTagGetName \/ NavTagGetTypedName \/ NavTagGetIndex
    \/ NavCompoundGetName \/ NavCompoundGetTypedName \/ NavListGet \/ NavListGetIndex

SpecNav == InitNav /\ [][NextNav]_vars

----------------------------------------------------------------------------
(* namespace mca: region files *)

\* A region file stream: [data, sectors, rest]. data maps the number of a
\* sector to the bytes recorded in it, [at |-> offset in the sector, bytes];
\* every other byte of the file is 0. The file is sectors * SectorSize + rest
\* bytes long.
SectorSize == 4096
RegionSlots == 1024

File(data, sectors, rest) == [data |-> data, sectors |-> sectors, rest |-> rest]

\* The byte at offset o of sector s, EOF past the end of the file
ByteAt(f, s, o) ==
    IF s > f.sectors \/ (s = f.sectors /\ o >= f.rest) THEN EOF
    ELSE IF s \in DOMAIN f.data /\ o >= f.data[s].at /\ o < f.data[s].at + Len(f.data[s].bytes)
    THEN f.data[s].bytes[o - f.data[s].at + 1]
    ELSE 0

\* region.read(buf, n) at offset o of sector s, the n bytes within the
\* sector: the bytes, or the failure thrown under the exception mask when
\* the file ends before them.
ReadBytes(f, s, o, n) ==
    IF \E i \in 0..(n - 1) : ByteAt(f, s, o + i) = EOF THEN Fail("ios_failure")
    ELSE Ok([i \in 1..n |-> ByteAt(f, s, o + i - 1)], 0)

\* The bytes of the stream from offset o of sector s to the end of that
\* sector or of the file: what a reader positioned there is given.
BytesLeft(f, s, o) ==
    IF s > f.sectors THEN 0
    ELSE IF s = f.sectors THEN (IF o >= f.rest THEN 0 ELSE f.rest - o)
    ELSE SectorSize - o
Zeros(n) == [i \in 1..n |-> 0]
SectorFrom(e, o) ==
    IF o <= e.at THEN Zeros(e.at - o) \o e.bytes \o Zeros(SectorSize - e.at - Len(e.bytes))
    ELSE SubSeq(e.bytes, o - e.at + 1, Len(e.bytes)) \o Zeros(SectorSize - e.at - Len(e.bytes))
StreamFrom(f, s, o) ==
    IF s \in DOMAIN f.data THEN SubSeq(SectorFrom(f.data[s], o), 1, BytesLeft(f, s, o))
    ELSE Zeros(BytesLeft(f, s, o))

\* getValue<uint32_t>(in): the object whose storage is the 4 bytes read
getValue(nat, f, s, o) ==
    Then(ReadBytes(f, s, o, 4), LAMBDA r : Ok(Object(nat, r.val), 0))

\* mca::endianswap<endian::big>(val)
mcaEndianswap(nat, val) == IF nat = "big" THEN val ELSE Reverse(val)

\* SectorInfo {uint32_t offset; uint8_t count}
SectorInfo(offset, count) == [offset |-> offset, count |-> count]

\* getLocation(location): byteswap(location) >> 8 on a little-endian host,
\* location << 8 on a big-endian one; the count is the fourth byte of the
\* storage of location.
getLocation(nat, location) ==
    SectorInfo(IF nat = "little" THEN <<0>> \o SubSeq(Reverse(location), 1, 3)
               ELSE SubSeq(location, 2, 4) \o <<0>>,
               Object(nat, location)[4])

\* Comparisons of the uint32_t offset, and the sector 0x1000 * offset seeks
\* to: the product is taken in 32 bits, which keeps the low 20 bits of offset.
OffsetIsZero(offset) == offset = <<0, 0, 0, 0>>
OffsetBelow2(offset) == offset[1] = 0 /\ offset[2] = 0 /\ offset[3] = 0 /\ offset[4] < 2
SeekSector(offset) == (offset[2] % 16) * 65536 + offset[3] * 256 + offset[4]

\* enum class CompressionScheme
GZip == 1
Zlib == 2
LZ4 == 4
Custom == 127

\* The Decompressor of the caller: "empty" holds no function, "null" is a
\* function that returns a null unique_ptr, "unshift" returns a stream that
\* gives each byte of the rest of the region stream minus the scheme id
\* (mod 256), a stand-in for inflating.
Decompressors == {"empty", "null", "unshift"}
Unshift(in, scheme) == [i \in 1..Len(in) |-> (in[i] + 256 - scheme) % 256]
Shift(doc, scheme) == [i \in 1..Len(doc) |-> (doc[i] + scheme) % 256]

\* The outcome of reading a chunk: the status, the document, the bytes
\* bin::read consumed, and the calls of the Decompressor: the scheme id of
\* each and the number of bytes the stream handed over had left.
ChunkRead(r, calls) == [st |-> r.st, val |-> r.val, pos |-> r.pos, calls |-> calls]
Call(in, scheme) == [scheme |-> scheme, given |-> Len(in)]

\* *func(region, scheme) and bin::read of the stream it returns. Calling an
\* empty move_only_function and dereferencing a null unique_ptr are
\* undefined.
readDecompressed(nat, func, in, scheme) ==
    CASE func = "empty" -> ChunkRead(Fail("UB"), <<>>)
      [] func = "null" -> ChunkRead(Fail("UB"), <<Call(in, scheme)>>)
      [] func = "unshift" ->
            ChunkRead(binRead("big", nat, Unshift(in, scheme)), <<Call(in, scheme)>>)

\* The switch of readChunk(region, func, location) on the compression type
readChunkSwitch(nat, func, in, type) ==
    CASE type = 3 -> ChunkRead(binRead("big", nat, in), <<>>)
      [] type \in {GZip, Zlib, LZ4, Custom} -> readDecompressed(nat, func, in, type)
      [] OTHER -> ChunkRead(Fail("unknown compression schemes"), <<>>)

\* readChunk(region, func, location), called with the exception mask set:
\* seekg(0x1000 * location.offset), the length (read, swapped and not used),
\* the compression type, the document.
readChunkAt(f, nat, func, location) ==
    IF ReadBytes(f, SeekSector(location.offset), 0, 5).st # "ok"
    THEN ChunkRead(Fail("ios_failure"), <<>>)
    ELSE CHOOSE r \in {readChunkSwitch(nat, func, in, ByteAt(f, SeekSector(location.offset), 4)) :
                          in \in {StreamFrom(f, SeekSector(location.offset), 5)}} : TRUE

\* The header word of slot i in sector s (0: locations, 1: timestamps), as
\* the uint32_t object the host reads from it
HeaderWord(nat, f, s, i) == Object(nat, [j \in 1..4 |-> ByteAt(f, s, 4 * i + j - 1)])

\* struct Chunk {uint32_t timestamp; NBT data}
Chunk(timestamp, data) == [timestamp |-> timestamp, data |-> data]

\* return {timestamp, readChunk(region, func, location)}
readChunkData(nat, timestamp, r) ==
    IF r.st # "ok" THEN r ELSE [r EXCEPT !.val = Chunk(mcaEndianswap(nat, timestamp), r.val)]

\* The checks of readChunk(region, func, x, z) on the location, then the
\* timestamp of the slot at 0x1000 + 4 * offset and the chunk.
readChunkLocated(f, nat, func, offset, location) ==
    IF OffsetIsZero(location.offset) /\ location.count = 0
    THEN ChunkRead(Fail("the chunk doesn't exist in the region file"), <<>>)
    ELSE IF OffsetBelow2(location.offset)
    THEN ChunkRead(Fail("sector overlaps with header"), <<>>)
    ELSE IF location.count = 0 THEN ChunkRead(Fail("size has to be > 0"), <<>>)
    ELSE IF getValue(nat, f, 1 + (4 * offset) \div SectorSize, (4 * offset) % SectorSize).st # "ok"
    THEN ChunkRead(Fail("ios_failure"), <<>>)
    ELSE readChunkData(nat,
             getValue(nat, f, 1 + (4 * offset) \div SectorSize, (4 * offset) % SectorSize).val,
             readChunkAt(f, nat, func, location))

\* readChunk(region, func, x, z): the location word at 4 * (x + 32 * z)
readChunk(f, nat, func, x, z) ==
    IF getValue(nat, f, (4 * (x + 32 * z)) \div SectorSize, (4 * (x + 32 * z)) % SectorSize).st # "ok"
    THEN ChunkRead(Fail("ios_failure"), <<>>)
    ELSE readChunkLocated(f, nat, func, x + 32 * z,
             getLocation(nat, getValue(nat, f, (4 * (x + 32 * z)) \div SectorSize,
                                       (4 * (x + 32 * z)) % SectorSize).val))

\* The SectorInfo readChunk(region, func, x, z) computes, <<>> when the read
\* of the location word throws
readLocation(f, nat, x, z) ==
    IF getValue(nat, f, (4 * (x + 32 * z)) \div SectorSize, (4 * (x + 32 * z)) % SectorSize).st # "ok"
    THEN <<>>
    ELSE <<getLocation(nat, getValue(nat, f, (4 * (x + 32 * z)) \div SectorSize,
                                     (4 * (x + 32 * z)) % SectorSize).val)>>

\* readRegion, the loop body for slot i: the slot is filled when
\* location.offset >= 2 && location.count > 0.
SlotLocation(nat, f, i) == getLocation(nat, HeaderWord(nat, f, 0, i))
SlotPresent(nat, f, i) ==
    ~OffsetBelow2(SlotLocation(nat, f, i).offset) /\ SlotLocation(nat, f, i).count > 0
SlotRead(f, nat, func, i) ==
    readChunkData(nat, HeaderWord(nat, f, 1, i), readChunkAt(f, nat, func, SlotLocation(nat, f, i)))

\* The least slot whose chunk read throws, or RegionSlots when none does;
\* reads maps each filled slot to the outcome of its chunk read.
FirstThrow(reads) ==
    IF \E i \in DOMAIN reads : reads[i].st # "ok"
    THEN CHOOSE i \in DOMAIN reads :
            /\ reads[i].st # "ok"
            /\ \A j \in DOMAIN reads : j < i => reads[j].st = "ok"
    ELSE RegionSlots

\* The Region returned: array<optional<Chunk>, 1024>, an optional as a
\* sequence of at most one Chunk
RegionOf(reads) ==
    [i \in 0..(RegionSlots - 1) |-> IF i \in DOMAIN reads THEN <<reads[i].val>> ELSE <<>>]

readRegionSlots(reads, bad) ==
    IF bad < RegionSlots THEN reads[bad]
    ELSE ChunkRead(Ok(RegionOf(reads), 0), <<>>)

\* The slots whose location word has a recorded byte: the words of all the
\* others are 0x00000000, for which the loop body does nothing.
RecordedSlots(f) ==
    {i \in (f.data[0].at \div 4)..((f.data[0].at + Len(f.data[0].bytes) - 1) \div 4) :
        i < RegionSlots}

\* readRegion(region, func): both tables of the header are read, then the
\* slots in order; the first chunk read that throws ends the call.
readRegion(f, nat, func) ==
    IF f.sectors < 2 THEN ChunkRead(Fail("ios_failure"), <<>>)
    ELSE CHOOSE r \in {readRegionSlots(reads, FirstThrow(reads)) :
                          reads \in {[i \in {j \in RecordedSlots(f) : SlotPresent(nat, f, j)} |->
                                         SlotRead(f, nat, func, i)]}} : TRUE

\* Region::get(x, z): at(x + 32 * z)
RegionGet(r, x, z) ==
    IF x + 32 * z >= RegionSlots THEN [st |-> "out_of_range", slot |-> <<>>]
    ELSE [st |-> "ok", slot |-> r[x + 32 * z]]

\* The region files read. One slot of the header holds a location word and
\* the timestamp 300; sector 2 holds a chunk: length, compression type,
\* payload.
ChunkDoc == NBT(S(<<"a">>), Tag(TagCompound, MkCompound(<< <<S(<<"b">>), Tag(TagByte, IntToBytes(5, 1))>> >>)))
ChunkDocBytes == binWrite("big", "big", ChunkDoc)
Recorded(at, content) == [at |-> at, bytes |-> content]
Header(slot, word) == Recorded(4 * slot, word)
ChunkPayload(scheme) ==
    IF scheme \in {GZip, Zlib, LZ4, Custom} THEN Shift(ChunkDocBytes, scheme) ELSE ChunkDocBytes
ChunkBytes(length, scheme) == IntToBytes(length, 4) \o <<scheme>> \o ChunkPayload(scheme)
RegionFile(slot, word, chunk, sectors, rest) ==
    File((0 :> Header(slot, word)) @@ (1 :> Header(slot, IntToBytes(300, 4)))
            @@ (2 :> Recorded(0, chunk)),
         sectors, rest)

FileSlots == {0, 33, 1023}
LocationWords ==
    {<<0, 0, 0, 0>>, <<0, 0, 2, 1>>, <<0, 0, 2, 255>>, <<0, 0, 1, 1>>, <<0, 0, 0, 1>>,
     <<0, 0, 2, 0>>, <<0, 0, 9, 1>>, <<16, 0, 2, 1>>, <<0, 2, 0, 0>>}
SchemeIds == {0, 1, 2, 3, 4, 5, 127, 128, 255}
\* The length field: the payload and the type byte, or 1 (no payload at all)
LengthFields == {Len(ChunkDocBytes) + 1, 1}

\* A file with two chunks: slot 0 in sector 2 and slot 1 in sector 3, the
\* second of the given compression type
TwoChunks(scheme) ==
    File((0 :> Recorded(0, <<0, 0, 2, 1, 0, 0, 3, 1>>))
            @@ (1 :> Recorded(0, <<0, 0, 1, 44, 0, 0, 1, 45>>))
            @@ (2 :> Recorded(0, ChunkBytes(Len(ChunkDocBytes) + 1, 3)))
            @@ (3 :> Recorded(0, ChunkBytes(Len(ChunkDocBytes) + 1, scheme))),
         4, 0)

RegionFiles ==
    {RegionFile(slot, word, ChunkBytes(Len(ChunkDocBytes) + 1, 3), 3, 0) :
        slot \in FileSlots, word \in LocationWords}
    \cup {RegionFile(0, <<0, 0, 2, 1>>, ChunkBytes(length, scheme), 3, 0) :
            scheme \in SchemeIds, length \in LengthFields}
    \cup {RegionFile(0, <<0, 0, 2, 1>>, ChunkBytes(Len(ChunkDocBytes) + 1, 3), 2, rest) :
            rest \in {0, 3, 4, 7, 4 + Len(ChunkDocBytes), 5 + Len(ChunkDocBytes)}}
    \cup {RegionFile(0, <<0, 0, 0, 0>>, <<>>, sectors, 0) : sectors \in {0, 1, 2}}
    \cup {TwoChunks(scheme) : scheme \in {3, 5, Zlib}}

\* The coordinates asked for
Coords == {0, 1, 31, 32}

\* What a build does at a call of an empty function or through a null
\* pointer: the jump to address 0 faults, or the library's assertion aborts.
Faults == {Fail("SIGSEGV"), Fail("SIGABRT")}
Outcomes(r) == IF r.st = "UB" THEN {ChunkRead(o, r.calls) : o \in Faults} ELSE {r}

InitMca ==
    /\ pc = "region"
    /\ region \in [file : RegionFiles, func : Decompressors]
    /\ native \in Endians
    /\ endian = "big"
    /\ nbt = NoNBT /\ bytes = <<>> /\ decoded = NoResult /\ rewritten = <<>>
    /\ exceptions = {} /\ outExceptions = {} /\ writer = "none" /\ nav = "none"

\* readChunk(region, func, x, z)
ReadChunk ==
    /\ pc = "region"
    /\ \E x \in Coords, z \in Coords :
          /\ nav' = [call |-> "readChunk", x |-> x, z |-> z,
                     location |-> readLocation(region.file, native, x, z)]
          /\ decoded' \in Outcomes(readChunk(region.file, native, region.func, x, z))
    /\ exceptions' = IosBits
    /\ pc' = "chunk"
    /\ UNCHANGED <<endian, native, nbt, bytes, rewritten, writer, region, outExceptions>>

\* readRegion(region, func)
ReadRegion ==
    /\ pc = "region"
    /\ decoded' \in Outcomes(readRegion(region.file, native, region.func))
    /\ exceptions' = IosBits
    /\ pc' = "regionRead"
    /\ UNCHANGED <<endian, native, nbt, bytes, rewritten, writer, nav, region, outExceptions>>

\* Region::get(x, z) on the Region that readRegion returned
GetChunk ==
    /\ pc = "regionRead" /\ decoded.st = "ok"
    /\ \E x \in Coords, z \in Coords :
          nav' = [call |-> "Region::get", x |-> x, z |-> z, got |-> RegionGet(decoded.val, x, z)]
    /\ pc' = "got"
    /\ UNCHANGED <<endian, native, nbt, bytes, decoded, rewritten, exceptions, writer, region, outExceptions>>

NextMca == ReadChunk \/ ReadRegion \/ GetChunk

SpecMca == InitMca /\ [][NextMca]_vars

----------------------------------------------------------------------------
(* Numeric coercion: Tag::get_num_as<T> *)

IsInteger(k) == k \in TagByte..TagLong
IsFloating(k) == k \in {TagFloat, TagDouble}

\* static_cast between integer types, to a type of w bytes: the value when
\* the destination can represent it, else the value modulo 2^(8w). A variant
\* that clamps to the range of the destination (sign bit kept, the other
\* bits set or cleared) is told from it by the narrowing property C12.
castIntSaturating(b, w) ==
    IF w >= Len(b) THEN SignExtend(b, w)
    ELSE IF SignExtend(Truncate(b, w), Len(b)) = b THEN Truncate(b, w)
    ELSE IF b[1] >= 128 THEN <<128>> \o Rep(w - 1, 0) ELSE <<127>> \o Rep(w - 1, 255)

castInt(b, w) == IF w >= Len(b) THEN SignExtend(b, w) ELSE Truncate(b, w)

\* The floating-point object of kind k of the value a/2 with the sign neg
FloatOf(k, neg, a) == IF k = TagFloat THEN F32M(neg, a) ELSE F64M(neg, a)
HalvesOf(k, b) == IF k = TagFloat THEN F32Halves(b) ELSE F64Halves(b)

\* static_cast of an integer to a floating-point type: exact for the values
\* whose double is within the floats of this model, the others are outside
\* it ("unmodelled").
castIntToFloat(b, tk) ==
    IF Len(b) <= 4 /\ SignedOf(b) > 0 - FloatDomain \div 2 /\ SignedOf(b) < FloatDomain \div 2
    THEN Ok(FloatOf(tk, SignedOf(b) < 0, 2 * Abs(SignedOf(b))), 0)
    ELSE Fail("unmodelled")

\* static_cast of a floating-point value to an integer type of w bytes: the
\* value truncated toward zero; undefined when the destination cannot
\* represent it.
castHalvesToInt(h, w) ==
    IF h.a < 0 THEN Fail("unmodelled")
    ELSE IF w = 1 /\ h.a \div 2 > (IF h.neg THEN 128 ELSE 127) THEN Fail("UB")
    ELSE Ok(IntToBytes(IF h.neg THEN Pow2(16) - h.a \div 2 ELSE h.a \div 2, 2), 0)

castFloatToInt(sk, b, w) ==
    Then(castHalvesToInt(HalvesOf(sk, b), w), LAMBDA r : Ok(castInt(r.val, w), 0))

\* static_cast between float and double: exact within the floats of this model
castFloatToFloat(sk, b, tk) ==
    IF HalvesOf(sk, b).a < 0 THEN Fail("unmodelled")
    ELSE Ok(FloatOf(tk, HalvesOf(sk, b).neg, HalvesOf(sk, b).a), 0)

\* static_cast<T>(get<U>()), U the scalar of TagType sk and T that of tk
staticCast(sk, b, tk) ==
    IF IsInteger(sk)
    THEN IF IsInteger(tk) THEN Ok(castInt(b, SizeOf(tk)), 0) ELSE castIntToFloat(b, tk)
    ELSE IF IsInteger(tk) THEN castFloatToInt(sk, b, SizeOf(tk))
    ELSE castFloatToFloat(sk, b, tk)

\* Tag::get_num_as<T>(), T the scalar of TagType tk: the result as a Tag of
\* kind tk.
getNumAs(tag, tk) ==
    IF getType(tag) \in TagByte..TagDouble
    THEN Then(staticCast(getType(tag), tag.v, tk), LAMBDA r : Ok(Tag(tk, r.val), 0))
    ELSE Fail("not a number")

\* The tags coerced: the ends of each integer range, values that fit every
\* type and values that fit none but their own, floats, and tags of the
\* kinds that hold no number.
NumPayloads(k) ==
    CASE k = TagByte -> {IntToBytes(n, 1) : n \in {5, -2, 127, -128}}
      [] k = TagShort -> {IntToBytes(n, 2) : n \in {5, -2, 300, -300, 32767, -32768, 128, 255}}
      [] k = TagInt -> {IntToBytes(n, 4) : n \in {5, -2, 70000, -70000, 65535, 32768, -129}}
                         \cup {<<127, 255, 255, 255>>, <<128, 0, 0, 0>>}
      [] k = TagLong -> {<<0, 0, 0, 0, 0, 0, 0, 5>>, <<255, 255, 255, 255, 255, 255, 255, 249>>,
                         <<0, 0, 0, 1, 0, 0, 0, 5>>, <<0, 0, 0, 0, 128, 0, 0, 0>>,
                         <<255, 255, 255, 255, 127, 255, 255, 255>>,
                         <<127, 255, 255, 255, 255, 255, 255, 255>>,
                         <<128, 0, 0, 0, 0, 0, 0, 0>>, <<255, 255, 255, 254, 255, 255, 1, 44>>}
      [] k = TagFloat -> {F32(5), F32(-3), F32(600)}
      [] k = TagDouble -> {F64(10), F64(-257), F64(0)}
NumTags == UNION {{Tag(k, v) : v \in NumPayloads(k)} : k \in TagByte..TagDouble}
NotNumTags ==
    {EndTag, Tag(TagString, S(<<"5">>)), Tag(TagByteArray, <<IntToBytes(5, 1)>>),
     Tag(TagIntArray, <<IntToBytes(5, 4)>>), Tag(TagLongArray, <<>>),
     MkList(TagInt, <<Tag(TagInt, IntToBytes(5, 4))>>), Tag(TagCompound, <<>>)}

InitNum ==
    /\ pc = "num"
    /\ nbt \in {NBT(<<>>, t) : t \in NumTags \cup NotNumTags}
    /\ nav = "none" /\ decoded = NoResult
    /\ endian = "big" /\ native = "big"
    /\ bytes = <<>> /\ rewritten = <<>> /\ exceptions = {} /\ outExceptions = {} /\ writer = "none"
    /\ region = "none"

\* A call of get_num_as<T>; undefined behaviour gives any value of T or a trap.
GetNumAs ==
    /\ pc = "num"
    /\ \E tk \in TagByte..TagDouble :
          /\ nav' = [call |-> "Tag::get_num_as<T>()", args |-> Args(tk, <<>>, 0)]
          /\ decoded' \in (IF getNumAs(nbt.tag, tk).st = "UB"
                           THEN {Fail("trap"), Ok(Tag(tk, IntToBytes(0, SizeOf(tk))), 0),
                                 Ok(Tag(tk, IntToBytes(-1, SizeOf(tk))), 0)}
                           ELSE {getNumAs(nbt.tag, tk)})
    /\ pc' = "coerced"
    /\ UNCHANGED <<endian, native, nbt, bytes, rewritten, exceptions, writer, region, outExceptions>>

NextNum == GetNumAs

SpecNum == InitNum /\ [][NextNum]_vars

Spec ==
    /\ InitBin \/ InitStr \/ InitNav \/ InitNum \/ InitMca
    /\ [][NextBin \/ NextStr \/ NextNav \/ NextNum \/ NextMca]_vars

----------------------------------------------------------------------------
(* Claims *)

Ascending(es) == \A i \in 1..(Len(es) - 1) : StrLess(es[i].name, es[i + 1].name)

\* C1 (as stated): for every name and Tag tree, End-kind tags in compounds
\* and names or strings of up to 65535 bytes included, and both byte orders,
\* bin::read of the bytes bin::write produced returns the same name and a
\* structurally equal tag.
C1_BinaryRoundTrip ==
    pc = "read" => decoded.st = "ok" /\ decoded.val = nbt

\* C3: a stream that bin::read consumes in full and whose compounds list
\* their entries in ascending key order without repeated names is reproduced
\* byte for byte by bin::write of the decoded document; 0A 00 00 00 decodes
\* to NBT("", empty Compound) and is written back as the same 4 bytes.
C3_DecodeEncodeIdentity ==
    /\ (pc = "rewritten" /\ decoded.pos = Len(bytes) /\ Ascending(nbt.tag.v))
          => rewritten = bytes
    /\ (pc \in {"decoded", "rewritten"} /\ bytes = MinimalDoc)
          => decoded = Ok(NBT(<<>>, Tag(TagCompound, <<>>)), 4)

C3_Witness ==
    /\ pc = "rewritten" /\ endian = "little"
    /\ Len(nbt.tag.v) = 2 /\ Ascending(nbt.tag.v)
    /\ decoded.pos = Len(bytes) /\ rewritten = bytes

ProbeDecoded(stream) == pc \in {"decoded", "rewritten"} /\ bytes = stream

\* C5 (as stated): at the document root, at a compound entry and at a list's
\* element kind, a tag id in 0..12 yields a Tag of that kind and any other id
\* makes bin::read fail.
C5_DispatchAsStated ==
    \A id \in ProbeIds :
        /\ ProbeDecoded(ProbeRoot(endian, id)) =>
              IF id \in 0..12 THEN decoded.st = "ok" /\ getType(decoded.val.tag) = id
              ELSE decoded.st # "ok"
        /\ ProbeDecoded(ProbeEntry(endian, id)) =>
              IF id \in 0..12
              THEN /\ decoded.st = "ok"
                   /\ Len(decoded.val.tag.v) = 1
                   /\ getType(decoded.val.tag.v[1].tag) = id
              ELSE decoded.st # "ok"
        /\ ProbeDecoded(ProbeList(endian, id)) =>
              IF id \in 0..12
              THEN /\ decoded.st = "ok"
                   /\ ListGetType(decoded.val.tag.v) = id
                   /\ getType(decoded.val.tag.v.elems[1]) = id
              ELSE decoded.st # "ok"

\* C5 (amended): as stated at the root and at a list's element kind; at a
\* compound entry an id in 1..12 yields an entry of that kind, id 0 ends the
\* compound without yielding a tag, and any other id fails with
\* "unsupported tag ID".
C5_Dispatch ==
    \A id \in ProbeIds :
        /\ ProbeDecoded(ProbeRoot(endian, id)) =>
              IF id \in 0..12 THEN decoded.st = "ok" /\ getType(decoded.val.tag) = id
              ELSE decoded.st = "unsupported tag ID"
        /\ ProbeDecoded(ProbeEntry(endian, id)) =>
              IF id \in 1..12
              THEN /\ decoded.st = "ok"
                   /\ Len(decoded.val.tag.v) = 1
                   /\ getType(decoded.val.tag.v[1].tag) = id
              ELSE IF id = TagEnd
              THEN decoded = Ok(NBT(<<>>, Tag(TagCompound, <<>>)), 4)
              ELSE decoded.st = "unsupported tag ID"
        /\ ProbeDecoded(ProbeList(endian, id)) =>
              IF id \in 0..12
              THEN /\ decoded.st = "ok"
                   /\ ListGetType(decoded.val.tag.v) = id
                   /\ getType(decoded.val.tag.v.elems[1]) = id
              ELSE decoded.st = "unsupported tag ID"

C5_Witness ==
    /\ ProbeDecoded(ProbeEntry(endian, TagLongArray))
    /\ decoded.st = "ok"
    /\ getType(decoded.val.tag.v[1].tag) = TagLongArray

\* C6 (as stated): the 2-byte length of a binary string is read as an
\* unsigned number 0..65535 and exactly that many bytes follow as the string:
\* a document of kind End whose stream holds its length field and that many
\* name bytes decodes to that name.
C6_StringLengthUnsigned ==
    (pc = "read" /\ bytes[1] = TagEnd) =>
        LET L == UnsignedOf(WireScalar(endian, SubSeq(bytes, 2, 3)))
        IN Len(bytes) = 3 + L =>
              decoded.st = "ok" /\ decoded.val.name = SubSeq(bytes, 4, 3 + L)

\* C2 (as stated): for every Tag tree and each of the three preset writers,
\* str::read of the text Writer::write produced returns a Tag equal to the
\* tree: the same kind at every node, the element kind of empty lists
\* included, and the same contents.
C2_TextRoundTrip ==
    pc = "reparsed" => decoded.st = "ok" /\ decoded.val = nbt.tag

\* The entries of the Compound decoded from a wire document.
DecodedEntries == IF pc = "parsed" THEN decoded.val.v ELSE decoded.val.tag.v

\* C4: a Compound decoded from a binary stream or parsed from a text that
\* lists several entries under one name holds exactly one entry for each
\* name listed, its value the first one met in the input, and the read
\* succeeds.
C4_DuplicateKeyPolicy ==
    (pc \in {"decoded", "rewritten", "parsed"} /\ nbt # NoNBT) =>
        /\ decoded.st = "ok"
        /\ \A j \in 1..Len(DecodedEntries) :
              \E i \in 1..Len(nbt.tag.v) : nbt.tag.v[i].name = DecodedEntries[j].name
        /\ \A i \in 1..Len(nbt.tag.v) :
              /\ Cardinality({j \in 1..Len(DecodedEntries) :
                                DecodedEntries[j].name = nbt.tag.v[i].name}) = 1
              /\ (\A h \in 1..(i - 1) : nbt.tag.v[h].name # nbt.tag.v[i].name) =>
                    \E j \in 1..Len(DecodedEntries) :
                        DecodedEntries[j] = nbt.tag.v[i]

C4_Witness ==
    /\ pc = "parsed"
    /\ Len(nbt.tag.v) = 3
    /\ nbt.tag.v[1].name = nbt.tag.v[3].name
    /\ nbt.tag.v[1].name # nbt.tag.v[2].name
    /\ nbt.tag.v[1].tag # nbt.tag.v[3].tag
    /\ Len(decoded.val.v) = 2
    /\ \E j \in 1..2 : decoded.val.v[j] = nbt.tag.v[1]

\* The kind the claim gives a token of body b and suffix x, and the value.
ClaimedKind(b, x) ==
    CASE x = <<>> -> IF b.form = "dec" THEN TagDouble ELSE TagInt
      [] x \in {S(<<"b">>), S(<<"B">>)} -> TagByte
      [] x \in {S(<<"s">>), S(<<"S">>)} -> TagShort
      [] x \in {S(<<"l">>), S(<<"L">>)} -> TagLong
      [] x \in {S(<<"f">>), S(<<"F">>)} -> TagFloat
      [] x \in {S(<<"d">>), S(<<"D">>)} -> TagDouble
ClaimedValue(b, k) ==
    CASE k = TagFloat -> F32(b.halves)
      [] k = TagDouble -> F64(b.halves)
      [] OTHER -> IntToBytes(b.halves \div 2, SizeOf(k))
ClaimedFails(b, k) == b.form = "bad" \/ (b.form = "dec" /\ k \notin {TagFloat, TagDouble})

\* C7: str::read classifies a bare token by its last character, in either
\* case: b Byte, s Short, l Long, f Float, d Double; without a suffix a
\* token with a '.' is a Double and one without is an Int; true and false
\* are Byte 1 and Byte 0; the characters left after the suffix must all be
\* consumed as a number of that kind, else the parse fails.
C7_TokenClassification ==
    pc = "parsed" =>
        /\ \A b \in TokenBodies, x \in TokenSuffixes :
              bytes = TokenText(b, x) =>
                  IF ClaimedFails(b, ClaimedKind(b, x))
                  THEN decoded.st = "from_chars() error"
                  ELSE decoded = Ok(Tag(ClaimedKind(b, x), ClaimedValue(b, ClaimedKind(b, x))),
                                    Len(bytes))
        /\ bytes = TrueLit => decoded = Ok(Tag(TagByte, <<1>>), 4)
        /\ bytes = FalseLit => decoded = Ok(Tag(TagByte, <<0>>), 5)

C7_Witness ==
    /\ pc = "parsed"
    /\ bytes = S(<<"5", "L">>)
    /\ decoded = Ok(Tag(TagLong, <<0, 0, 0, 0, 0, 0, 0, 5>>), 2)

\* C8 (as stated): in a list literal the kind of the first element is the
\* element kind of the List; a later element of another kind fails the
\* parse; every List parsed holds only elements of the kind it reports.
C8_ListHomogeneity ==
    pc = "parsed" =>
        \A es \in ListLiterals :
            bytes = ListText(es) =>
                IF \A i \in 1..Len(es) : es[i].kind = es[1].kind
                THEN /\ decoded.st = "ok"
                     /\ ListGetType(decoded.val.v) = es[1].kind
                     /\ Len(decoded.val.v.elems) = Len(es)
                     /\ \A i \in 1..Len(es) : getType(decoded.val.v.elems[i]) = es[1].kind
                ELSE decoded.st # "ok"

\* The failures of str::read that are a runtime_error or bad_variant_access.
SyntaxErrors ==
    {"unexpected character", "from_chars() error", "the character cannot be escaped",
     "unexpected type", "bad_variant_access"}

\* C9 (as stated): an input with a missing ':', a missing closing ']' or
\* '}', an unterminated quoted string, an illegal escape, a number not
\* consumed in full or a list element of another kind ends str::read in a
\* syntax error: no value is returned and the parse does not run on.
C9_SyntaxErrors ==
    (pc = "parsed" /\ bytes \in Malformed) => decoded.st \in SyntaxErrors

StrictCalls ==
    {"Tag::get<T>()", "Tag::get(name)", "Tag::get<T>(name)", "Tag::get<T>(i)",
     "Compound::get(name)", "Compound::get<T>(name)", "List::get<T>()", "List::get<T>(i)"}

\* C10 (as stated): every get_if accessor returns an absent result when the
\* kind is not the one asked for, the name is not present, the index is not
\* below the size or the receiver is absent; no call of a chain fails.
C10_SafeNavigation ==
    (pc = "nav" /\ nav.steps > 0 /\ nav.call \notin StrictCalls) =>
        /\ nav.st = "ok"
        /\ nav.this.null => nav.ptr.null

\* The get_if accessor that corresponds to a strict call, on the same
\* receiver with the same arguments.
SafeOf(call, this, a) ==
    CASE call = "Tag::get<T>()" -> TagGetIf(this, a.k)
      [] call = "Tag::get(name)" -> TagGetIfName(this, a.name)
      [] call = "Tag::get<T>(name)" -> TagGetIfTypedName(this, a.k, a.name)
      [] call = "Tag::get<T>(i)" -> TagGetIfIndex(this, a.k, a.i)
      [] call = "Compound::get(name)" -> CompoundGetIf(this, a.name)
      [] call = "Compound::get<T>(name)" -> CompoundGetIfTypedName(this, a.k, a.name)
      [] call = "List::get<T>()" -> ListGetIfVector(this, a.k)
      [] call = "List::get<T>(i)" -> ListGetIf(this, a.k, a.i)

\* The element a lookup names, when the kinds match, the name is present and
\* the index is within bounds: <<element>>, and <<>> when there is none.
Named(c, name) == IF CompoundFind(c, name) = 0 THEN <<>> ELSE <<c[CompoundFind(c, name)].tag>>
OfKind(ts, k) == IF ts # <<>> /\ getType(ts[1]) = k THEN <<ts[1].v>> ELSE <<>>
AtIndex(vs, i) == IF vs # <<>> /\ i < Len(vs[1]) THEN <<vs[1][i + 1]>> ELSE <<>>
Looked(call, o, a) ==
    CASE call = "Tag::get<T>()" -> OfKind(<<o>>, a.k)
      [] call = "Tag::get(name)" ->
            IF getType(o) = TagCompound THEN Named(o.v, a.name) ELSE <<>>
      [] call = "Tag::get<T>(name)" ->
            IF getType(o) = TagCompound THEN OfKind(Named(o.v, a.name), a.k) ELSE <<>>
      [] call = "Tag::get<T>(i)" -> AtIndex(OfKind(<<o>>, a.k), a.i)
      [] call = "Compound::get(name)" -> Named(o, a.name)
      [] call = "Compound::get<T>(name)" -> OfKind(Named(o, a.name), a.k)
      [] call = "List::get<T>()" -> IF ListGetType(o) = a.k THEN <<o.elems>> ELSE <<>>
      [] call = "List::get<T>(i)" ->
            IF ListGetType(o) = a.k /\ a.i < Len(o.elems) THEN <<o.elems[a.i + 1].v>> ELSE <<>>

\* C11 (as stated): a strict accessor (get<T>(), get(name), get<T>(name),
\* get<T>(i) of Tag, Compound and List) signals an error exactly when the
\* active kind differs from the one asked for, the name is absent or the
\* index is out of bounds, which is exactly where the corresponding get_if
\* accessor is absent; otherwise it returns the element the corresponding
\* get_if accessor points to.
C11_StrictFailsWhereSafeAbsent ==
    (pc = "nav" /\ nav.call \in StrictCalls) =>
        /\ nav.st \in {"ok", "bad_variant_access", "out_of_range"}
        /\ nav.st # "ok" <=> Looked(nav.call, nav.this.obj, nav.args) = <<>>
        /\ nav.st = "ok" => nav.ptr = Ptr(Looked(nav.call, nav.this.obj, nav.args)[1])
        /\ nav.st # "ok" =>
              /\ SafeOf(nav.call, nav.this, nav.args).st = "ok"
              /\ SafeOf(nav.call, nav.this, nav.args).ptr.null
        /\ nav.st = "ok" => SafeOf(nav.call, nav.this, nav.args) = Returned(nav.ptr)

\* The strict accessors taken alone: the error cases and the element returned.
C11_StrictAlone ==
    (pc = "nav" /\ nav.call \in StrictCalls) =>
        /\ nav.st \in {"ok", "bad_variant_access", "out_of_range"}
        /\ nav.st # "ok" <=> Looked(nav.call, nav.this.obj, nav.args) = <<>>
        /\ nav.st = "ok" =>
              /\ nav.ptr = Ptr(Looked(nav.call, nav.this.obj, nav.args)[1])
              /\ SafeOf(nav.call, nav.this, nav.args) = Returned(nav.ptr)

\* The integer value of an object of at most 4 bytes modulo 2^(8w), w < 4
ModOf(b, w) == SignedOf(b) % Pow2(8 * w)

\* An integer object's value fits the integer type of w bytes.
Fits(b, w) == w >= Len(b) \/ SignExtend(Truncate(b, w), Len(b)) = b

\* C12: get_num_as<T> fails ("not a number") for every tag that is not of
\* kind Byte, Short, Int, Long, Float or Double. For a tag of an integer
\* kind and an integer T it never fails: it returns the stored value when T
\* can represent it, and else the stored value modulo 2^width(T).
C12_NumericCoercion ==
    pc = "coerced" =>
        /\ getType(nbt.tag) \notin TagByte..TagDouble => decoded = Fail("not a number")
        /\ (IsInteger(getType(nbt.tag)) /\ IsInteger(nav.args.k)) =>
              /\ decoded.st = "ok"
              /\ getType(decoded.val) = nav.args.k
              /\ Len(decoded.val.v) = SizeOf(nav.args.k)
              /\ Fits(nbt.tag.v, SizeOf(nav.args.k)) =>
                    SignExtend(decoded.val.v, 8) = SignExtend(nbt.tag.v, 8)
              /\ \A i \in 0..(SizeOf(nav.args.k) - 1) :
                    i < Len(nbt.tag.v) =>
                       decoded.val.v[Len(decoded.val.v) - i] = nbt.tag.v[Len(nbt.tag.v) - i]
              /\ (Len(nbt.tag.v) <= 4 /\ SizeOf(nav.args.k) < 4) =>
                    ModOf(decoded.val.v, SizeOf(nav.args.k)) = ModOf(nbt.tag.v, SizeOf(nav.args.k))

\* Int 70000 read as a short: 70000 - 65536 = 4464
C12_Witness ==
    /\ pc = "coerced"
    /\ nbt.tag = Tag(TagInt, IntToBytes(70000, 4))
    /\ nav.args.k = TagShort
    /\ decoded.st = "ok" /\ SignedOf(decoded.val.v) = 4464

\* C17 (as stated): for every document and byte order, bin::read of a
\* proper prefix of the bytes bin::write produced (the empty stream
\* included) fails with an I/O failure and returns no document.
C17_TruncatedInputFails ==
    pc = "truncated" => decoded.st = "ios_failure"

\* The region file as the format describes it: the four bytes of header
\* word i of table s, the 24-bit sector offset and 8-bit sector count of a
\* location word, the value of a big-endian word, and the chunk stored at a
\* sector: its length field, compression type and payload bytes.
WordBytes(f, s, i) == [j \in 1..4 |-> ByteAt(f, s, 4 * i + j - 1)]
WordOffset(w) == w[1] * 65536 + w[2] * 256 + w[3]
WordCount(w) == w[4]
Populated(w) == WordOffset(w) >= 2 /\ WordCount(w) > 0
Overlapping(w) == WordOffset(w) < 2 /\ WordCount(w) > 0
ChunkStored(f, sector) == ReadBytes(f, sector, 0, 5).st = "ok"
ChunkLength(f, sector) == UnsignedOf(ReadBytes(f, sector, 0, 4).val)
ChunkScheme(f, sector) == ByteAt(f, sector, 4)
\* The document of the chunk stored at a sector, decoded by the format
ChunkDecoded(f, nat, func, sector) ==
    readChunkSwitch(nat, func, StreamFrom(f, sector, 5), ChunkScheme(f, sector))

FormatErrors ==
    {"sector overlaps with header", "size has to be > 0", "unknown compression schemes"}

\* C13 (as stated): after a successful readRegion slot i is present exactly
\* when location word i has a sector offset >= 2 and a sector count > 0; a
\* present slot holds the timestamp of timestamp word i (big-endian) and the
\* document stored at byte offset 4096 * offset; a slot whose location word
\* is 0x00000000 is absent, and Region::get(x, z) returns it as absent.
C13_RegionSlots ==
    /\ (pc = "regionRead" /\ decoded.st = "ok") =>
          \A i \in 0..(RegionSlots - 1) :
             /\ decoded.val[i] # <<>> <=> Populated(WordBytes(region.file, 0, i))
             /\ decoded.val[i] # <<>> =>
                   /\ decoded.val[i][1].timestamp = WordBytes(region.file, 1, i)
                   /\ ChunkStored(region.file, WordOffset(WordBytes(region.file, 0, i)))
                   /\ decoded.val[i][1].data =
                         ChunkDecoded(region.file, native, region.func,
                                      WordOffset(WordBytes(region.file, 0, i))).val
    /\ (pc = "got" /\ nav.x < 32 /\ nav.z < 32
           /\ WordBytes(region.file, 0, nav.x + 32 * nav.z) = <<0, 0, 0, 0>>) =>
          nav.got = [st |-> "ok", slot |-> <<>>]

\* C14 (as stated): readChunk(region, func, x, z) on a slot whose location
\* word has sector offset 0 and sector count 0 reports that the chunk does
\* not exist as absence: it is not signalled as a format error or any other
\* failure (nothing is thrown).
C14_AbsentChunkIsNotAnError ==
    (pc = "chunk" /\ nav.x < 32 /\ nav.z < 32
        /\ WordBytes(region.file, 0, nav.x + 32 * nav.z) = <<0, 0, 0, 0>>
        /\ region.file.sectors >= 2) =>
       decoded.st = "ok"

\* C15 (as stated): a location word with sector offset 0 or 1 and sector
\* count > 0 makes readChunk(x, z) of its slot fail with a format error, and
\* makes readRegion of the file fail with a format error: no Region is
\* returned.
C15_HeaderOverlap ==
    /\ (pc = "chunk" /\ nav.x < 32 /\ nav.z < 32
           /\ Overlapping(WordBytes(region.file, 0, nav.x + 32 * nav.z))) =>
          decoded.st = "sector overlaps with header"
    /\ (pc = "regionRead"
           /\ \E i \in RecordedSlots(region.file) : Overlapping(WordBytes(region.file, 0, i))) =>
          decoded.st \in FormatErrors

\* The chunk that readChunk(x, z) of the last call went to: its slot, the
\* sector its seek reached, and whether the call got as far as the switch
\* on the compression type.
ChunkSlot == nav.x + 32 * nav.z
ChunkSector == SeekSector(nav.location[1].offset)
ChunkReached ==
    /\ pc = "chunk" /\ ChunkSlot < RegionSlots /\ nav.location # <<>>
    /\ ~OffsetBelow2(nav.location[1].offset) /\ nav.location[1].count > 0
    /\ region.file.sectors >= 2
    /\ ChunkStored(region.file, ChunkSector)
Delegated == {GZip, Zlib, LZ4, Custom}

\* C16 (as stated): a chunk whose compression scheme id is 3 is decoded
\* without a call of the decompression strategy; ids 1, 2, 4 and 127 call
\* the supplied strategy exactly once with that id and decode its result;
\* every other id, and a delegated id when no strategy was supplied, ends in
\* a format error and no document.
C16_SchemeDispatch ==
    ChunkReached =>
       /\ ChunkScheme(region.file, ChunkSector) = 3 => decoded.calls = <<>>
       /\ (ChunkScheme(region.file, ChunkSector) \in Delegated /\ region.func # "empty") =>
             /\ Len(decoded.calls) = 1
             /\ decoded.calls[1].scheme = ChunkScheme(region.file, ChunkSector)
             /\ region.func = "unshift" =>
                   decoded.st = binRead("big", native,
                                    Unshift(StreamFrom(region.file, ChunkSector, 5),
                                            ChunkScheme(region.file, ChunkSector))).st
       /\ (\/ ChunkScheme(region.file, ChunkSector) \notin Delegated \cup {3}
           \/ ChunkScheme(region.file, ChunkSector) \in Delegated /\ region.func = "empty") =>
             decoded.st \in FormatErrors

\* C16, without the case of a strategy that was not supplied
C16_SchemeDispatchSupplied ==
    (ChunkReached /\ region.func # "empty") => C16_SchemeDispatch

\* C18 (as stated): for the location word stored in the file as bytes
\* b0 b1 b2 b3 getLocation returns offset = b0 * 65536 + b1 * 256 + b2 and
\* count = b3, on a host of either byte order.
C18_LocationUnpacking ==
    (pc = "chunk" /\ ChunkSlot < RegionSlots /\ nav.location # <<>>) =>
       nav.location[1] =
          SectorInfo(<<0>> \o SubSeq(WordBytes(region.file, 0, ChunkSlot), 1, 3),
                     WordBytes(region.file, 0, ChunkSlot)[4])

\* C18, on a little-endian host only
C18_LocationUnpackingLittle ==
    native = "little" => C18_LocationUnpacking

\* C19 (as stated): the document of a chunk, or the input handed to the
\* decompression strategy, is taken from the length - 1 bytes after the
\* 4-byte length and the scheme id; no byte of the file beyond them is
\* consumed as part of the chunk.
C19_PayloadBoundedByLength ==
    (ChunkReached /\ decoded.st = "ok") =>
       IF decoded.calls = <<>>
       THEN decoded.pos <= ChunkLength(region.file, ChunkSector) - 1
       ELSE decoded.calls[1].given <= ChunkLength(region.file, ChunkSector) - 1

\* The array a literal denotes when its elements are taken by their values
ArrayOf(a) ==
    Tag(ArrayKind(Ord(a.letter)),
        [i \in 1..Len(a.elems) |->
            IntToBytes(a.elems[i].value, SizeOf(ArrayElem(ArrayKind(Ord(a.letter)))))])
\* The suffixes detail::read<T> takes for the elements of an array
ElementSuffixes(letter) ==
    CASE letter = "B" -> {S(<<"b">>), S(<<"B">>), TrueLit}
      [] letter = "I" -> {<<>>}
      [] letter = "L" -> {S(<<"l">>), S(<<"L">>)}

\* C20 (as stated): in [B; ...], [I; ...] and [L; ...] every element is a
\* bare numeric token: a literal of unsuffixed elements parses to the array
\* of its values, and a literal with an element that carries a suffix is
\* rejected.
C20_ArrayElementsUnsuffixed ==
    pc = "parsed" =>
       \A c \in ArrayCases :
          bytes = c.text =>
             IF \A i \in 1..Len(c.lit.elems) : c.lit.elems[i].suffix = <<>>
             THEN decoded.st = "ok" /\ decoded.val = ArrayOf(c.lit)
             ELSE decoded.st # "ok"

\* C20 (amended): the elements of [I; ...] are bare integers, those of
\* [B; ...] carry the suffix b or B (or are true or false) and those of
\* [L; ...] the suffix l or L: such a literal parses to the array of its
\* values, and a literal with an element that lacks the suffix of its array,
\* or carries another one, is rejected.
C20_ArrayElements ==
    pc = "parsed" =>
       \A c \in ArrayCases :
          bytes = c.text =>
             IF \A i \in 1..Len(c.lit.elems) :
                   c.lit.elems[i].suffix \in ElementSuffixes(c.lit.letter)
             THEN decoded.st = "ok" /\ decoded.val = ArrayOf(c.lit)
             ELSE decoded.st \in {"unexpected type", "from_chars() error"}

\* [B; 5b, -2B] has been read as the byte array of 5 and -2.
C20_Witness ==
    /\ pc = "parsed"
    /\ bytes = S(<<"[", "B", ";", " ", "5", "b", ",", " ", "-", "2", "B", "]">>)
    /\ decoded.st = "ok"
    /\ decoded.val = Tag(TagByteArray, <<IntToBytes(5, 1), IntToBytes(-2, 1)>>)

\* The side of the grid of a Region
GridSide == 32

\* C24 (as stated): Region::get(x, z) returns slot x + 32 * z for
\* 0 <= x, z < 32, and a call with x >= 32 or z >= 32 fails with an
\* out-of-range error: it does not return the slot of an in-range pair.
C24_RegionGetConfined ==
    pc = "got" =>
       IF nav.x < GridSide /\ nav.z < GridSide
       THEN nav.got = [st |-> "ok", slot |-> decoded.val[nav.x + 32 * nav.z]]
       ELSE nav.got.st = "out_of_range"

\* C24, for the coordinates of the grid only
C24_RegionGetInGrid ==
    (pc = "got" /\ nav.x < GridSide /\ nav.z < GridSide) => C24_RegionGetConfined

\* Every Compound inside t lists its entries in strictly ascending key order
RECURSIVE KeysOrdered(_)
KeysOrdered(t) ==
    CASE t.k = TagCompound ->
            Ascending(t.v) /\ \A i \in 1..Len(t.v) : KeysOrdered(t.v[i].tag)
      [] t.k = TagList /\ t.v.et \in {TagCompound, TagList} ->
            \A i \in 1..Len(t.v.elems) : KeysOrdered(t.v.elems[i])
      [] OTHER -> TRUE
\* The tag a read or a parse returned
TextStates == {"parsed", "reparsed", "reprinted"}
TreeStates == {"read", "decoded", "rewritten", "truncated"} \cup TextStates
DecodedTag == IF pc \in TextStates THEN decoded.val ELSE decoded.val.tag
\* The entries of a stream, the first of each name, in ascending key order
FirstEntries(es) ==
    {es[i] : i \in {j \in 1..Len(es) : \A h \in 1..(j - 1) : es[h].name # es[j].name}}
SortedEntries(es) ==
    CHOOSE q \in [1..Cardinality(FirstEntries(es)) -> FirstEntries(es)] : Ascending(q)
ExampleTag ==
    Tag(TagCompound,
        <<[name |-> S(<<"b", "a", "r">>),
           tag |-> MkList(TagInt, <<Tag(TagInt, IntToBytes(1, 4)), Tag(TagInt, IntToBytes(2, 4)),
                                    Tag(TagInt, IntToBytes(3, 4))>>)],
          [name |-> S(<<"f", "o", "o">>), tag |-> Tag(TagByte, IntToBytes(1, 1))]>>)

\* C21: every Compound a binary decode or a text parse returns has unique
\* names in ascending key order, whatever the order of the input; bin::write
\* and Writer::write emit the entries in ascending key order, so the same
\* entries in any order are written as the same bytes; {foo: 1b,
\* bar: [1, 2, 3]} is held and written as bar, then foo.
C21_CompoundKeyOrder ==
    /\ (pc \in TreeStates /\ decoded.st = "ok") => KeysOrdered(DecodedTag)
    /\ (pc = "rewritten" /\ nbt # NoNBT) =>
          rewritten = Wire(endian, NBT(nbt.name, Tag(TagCompound, SortedEntries(nbt.tag.v))))
    /\ (pc = "reprinted" /\ nbt # NoNBT) =>
          rewritten = strWrite(WriterOf(writer), Tag(TagCompound, SortedEntries(nbt.tag.v)))
    /\ (pc \in {"parsed", "reprinted"} /\ bytes = ExampleText) =>
          decoded.st = "ok" /\ decoded.val = ExampleTag

\* {foo: 1b, bar: [1, 2, 3]} has been parsed and written back compactly as
\* bar, then foo.
C21_Witness ==
    /\ pc = "reprinted" /\ bytes = ExampleText /\ writer = "compactWriter"
    /\ rewritten = S(<<"{", "b", "a", "r", ":", "[", "1", ",", "2", ",", "3", "]", ",",
                       "f", "o", "o", ":", "1", "b", "}">>)

\* C22 (as stated): a call of bin::read or bin::write changes nothing of the
\* caller's stream but the bytes consumed or produced: the exception mask of
\* the stream is the same after the call as before it. (The codec has no
\* state of its own: binRead and binWrite are functions of their arguments.)
C22_StreamStateUnchanged ==
    [][/\ (BinRead \/ BinReadTruncated) => exceptions' = exceptions
       /\ (BinWrite \/ BinRewrite) => outExceptions' = outExceptions]_vars

\* C22, for everything of the program's state but the two exception masks
C22_OnlyTheMasksChange ==
    [][/\ (BinRead \/ BinReadTruncated) =>
             UNCHANGED <<endian, native, nbt, rewritten, outExceptions>>
       /\ (BinWrite \/ BinRewrite) => UNCHANGED <<endian, native, nbt, decoded, exceptions>>]_vars

\* C23 (as stated): an input in which an unquoted name, a bare value or an
\* array element is empty ({: 1}, {a: }, [1, ], [B; ,], no value at all) is
\* rejected with a syntax error: it is not accepted, and nothing outside the
\* token is read.
C23_EmptyTokensRejected ==
    (pc = "parsed" /\ bytes \in EmptyTokens) => decoded.st \in SyntaxErrors

\* C23, for the empty element of an int array and the list that ends in a
\* comma only as far as a defined outcome goes: neither is accepted.
C23_NeverAccepted ==
    (pc = "parsed" /\ bytes \in EmptyTokens /\ Peek(bytes, 1) # Ord(":")
        /\ bytes # S(<<"{", "a", ":", "1", ",", ":", "2", "}">>)) =>
       decoded.st # "ok"

=============================================================================
